---- MODULE Spec2Model ----
(***************************************************************************)
(* Verification model of the FINJ fault-injection runtime fabric:          *)
(*   - MessageEntity / MessageServer  (network/msg_entity.py, msg_server.py)*)
(*   - InjectorEngine session manager (injection/fault_injector_engine.py) *)
(*   - InjectionThreadPool            (injection/thread_pool.py)           *)
(*   - Client transport / InjectorClient (network/client.py,               *)
(*                                     injection/fault_injector_client.py) *)
(* Python None is the empty tuple; a message is a record holding exactly   *)
(* the keys of the Python dictionary; an address is an (ip, port) tuple;   *)
(* a local that is None or an integer is the tuple of zero or one integer. *)
(***************************************************************************)
EXTENDS Integers, Sequences, FiniteSets, TLC

VARIABLES
    now,                \* wall clock, int(time())
    reSendMsgs,         \* MessageEntity.reSendMsgs (RECOVER_AFTER_DISCONNECT)
    seq_num_lim,        \* MessageEntity._seq_num_lim
    historyLen,         \* MessageEntity._historyLen
    peerSock,           \* per address: the peer's end of the TCP connection
    registeredHosts,    \* MessageEntity._registeredHosts of the server (its keys)
    inputQueue,         \* MessageEntity._inputQueue of the server; each entry is followed by
                        \* the header of its frame, which the code drops (history only)
    outputQueue,        \* MessageEntity._outputQueue of the server
    curr_seq_ts,        \* MessageEntity._curr_seq_ts
    curr_seq_num,       \* MessageEntity._curr_seq_num
    msgHistory,         \* MessageEntity._msgHistory
    dummyReadable,      \* a wakeup byte is waiting on MessageEntity._dummy_sock_r
    stamped,            \* history variable: the stamps given by the flush, in order
    master,             \* InjectorEngine._master
    session_timestamp,  \* InjectorEngine._session_timestamp
    engineUp,           \* FALSE once the engine has exit()ed
    handled,            \* listen's locals (addr, msg): the message popped last
    poolInitialized,    \* ThreadPool._initialized
    poolQueue,          \* ThreadPool._queue
    queueSem,           \* ThreadPool._queueSem: the permits of the queue semaphore
    stopCall,           \* the position of the thread that is inside pool.stop()
    threads,            \* ThreadPool._threads: what each worker slot is doing
    session_start,      \* InjectionThreadPool._session_start
    session_start_abs,  \* InjectionThreadPool._session_start_abs
    correction_factor,  \* InjectionThreadPool._correction_factor, in tenths of a second
    skip_expired,       \* InjectionThreadPool._skip_expired
    retry_tasks,        \* InjectionThreadPool._retry_tasks
    poolStarts,         \* history variable: number of calls of pool.start() that started it
    submitted,          \* history variable: the frames whose task was put on the pool queue
    sends,              \* number of frames the peers have written so far
    ctlAddr,            \* the address the controller connects from (None: no controller)
    client,             \* the controller's transport: the fields of its Client
    injector            \* the controller: the fields and the locals of InjectorClient._inject

confVars   == <<reSendMsgs, seq_num_lim, historyLen>>
ctlVars    == <<client, injector>>
engineVars == <<master, session_timestamp, engineUp>>
listenVars == <<handled>>
poolVars   == <<poolInitialized, poolQueue, queueSem, stopCall, threads, session_start,
                session_start_abs, correction_factor, skip_expired, retry_tasks,
                poolStarts, submitted>>
entityVars == <<registeredHosts, inputQueue, outputQueue, curr_seq_ts, curr_seq_num,
                msgHistory, dummyReadable, stamped>>
netVars    == <<peerSock, sends, ctlAddr>>
vars == <<now, confVars, netVars, ctlVars, entityVars, engineVars, listenVars, poolVars>>

-----------------------------------------------------------------------------
(* Bounds of the model *)

MaxTime == 1            \* the clock stops advancing here
MaxSends == 3           \* frames the peers write in one behaviour
SeqNumLim == 3          \* stands for _seq_num_lim = 4000000000 (msg_entity.py:70)
HistoryLen == 3         \* stands for _historyLen = 4096 (msg_entity.py:93)
PoolSize == 1           \* stands for MAX_REQUESTS = 20 worker slots
LongSeqNumLim == 24     \* a _seq_num_lim that the injection of the workload never reaches
LongHistoryLen == 24    \* a _historyLen that the injection of the workload never fills
RetryPeriod == 1        \* stands for RETRY_PERIOD = 30 (config_tools.py:48)
RetryInterval == 1      \* stands for RETRY_INTERVAL = 600 (config_tools.py:47)
PreSendInterval == 1    \* stands for PRE_SEND_INTERVAL = 600 (config_tools.py:49)
WorkloadPadding == 0    \* stands for WORKLOAD_PADDING = 20 (config_tools.py:50)
SessionClockStep == 30  \* seconds by which the clock advances while a session is opened
MaxAppended == 4        \* the messages handed to send_msg and broadcast_msg
MaxAdded == 4           \* the messages the event loop adds to the inbound queue

-----------------------------------------------------------------------------
(* Values *)

None == <<>>
\* The (ip, port) addresses peers connect from, named in the order they first connect
ConnectOrder == << <<"10.0.0.1", "p1">>, <<"10.0.0.1", "p2">> >>
Addrs == {ConnectOrder[k] : k \in DOMAIN ConnectOrder}
\* The address of the engine, as the controller dials it
EngineAddr == <<"10.0.0.9", "30000">>
\* A second engine, and the engines in the order in which the client registered them
OtherEngine == <<"10.0.0.8", "30000">>
EngineOrder == <<EngineAddr, OtherEngine>>
Engines == {EngineOrder[k] : k \in DOMAIN EngineOrder}
BROADCAST_ID == "*"
BroadcastAddr == <<BROADCAST_ID, BROADCAST_ID>>
NoSession == -1
CONNECTION_TOREMOVE_MSG == 2
CORRECTION_THRESHOLD == 60
SessionTss == {1, 2}             \* session timestamps a controller may carry
SetTimes == {1}                  \* virtual start times carried by SET-TIME
CorrectTimes == {100}            \* virtual times carried by CORRECT-TIME
PeerStamps == {<<1, 0>>, <<1, 1>>}  \* (sessionTs, seqNum) pairs of the peers' frames
FwdStamps == {<<0, 0>>, <<0, 1>>}   \* pairs carried by the peers' forwarding requests

\* The value of F at v, v being evaluated once however often F refers to it
At(F(_), v) == CHOOSE r \in {F(x) : x \in {v}} : TRUE

LexLess(s1, s2) == s1[1] < s2[1] \/ (s1[1] = s2[1] /\ s1[2] < s2[2])

Abs(x) == IF x < 0 THEN -x ELSE x

-----------------------------------------------------------------------------
(* MessageBuilder *)

ACK_YES == "ack_yes"
ACK_NO == "ack_no"
STATUS_START == "status_start"
STATUS_END == "status_end"
STATUS_ERR == "status_err"
STATUS_GREET == "status_greet"
COMMAND_START == "command_start"
COMMAND_START_SESSION == "command_session_s"
COMMAND_END_SESSION == "command_session_e"
COMMAND_SET_TIME == "command_set_time"
COMMAND_CORRECT_TIME == "command_correct_time"
COMMAND_TERMINATE == "command_term"
COMMAND_GREET == "command_greet"

ack(timestamp, positive, error) ==
    IF error # None
    THEN [type |-> IF positive THEN ACK_YES ELSE ACK_NO, error |-> error[1], timestamp |-> timestamp]
    ELSE [type |-> IF positive THEN ACK_YES ELSE ACK_NO, timestamp |-> timestamp]

command_session(timestamp, end) ==
    [type |-> IF end THEN COMMAND_END_SESSION ELSE COMMAND_START_SESSION, timestamp |-> timestamp]

command_set_time(timestamp) == [type |-> COMMAND_SET_TIME, timestamp |-> timestamp]

command_correct_time(timestamp) == [type |-> COMMAND_CORRECT_TIME, timestamp |-> timestamp]

command_terminate == [type |-> COMMAND_TERMINATE]

command_greet(timestamp) == [type |-> COMMAND_GREET, timestamp |-> timestamp]

status_greet(timestamp, num, active) ==
    [type |-> STATUS_GREET, args |-> num, timestamp |-> timestamp, isFault |-> active]

\* A task: the fields of io/task.py that the fabric reads
Task(seqNum, timestamp, duration) ==
    [args |-> "cmd", timestamp |-> timestamp, duration |-> duration, seqNum |-> seqNum,
     isFault |-> FALSE, cores |-> None]

command_start(t) ==
    [type |-> COMMAND_START, args |-> t.args, duration |-> t.duration, seqNum |-> t.seqNum,
     timestamp |-> t.timestamp, isFault |-> t.isFault]

status_start(t, timestamp) ==
    [type |-> STATUS_START, args |-> t.args, duration |-> t.duration, seqNum |-> t.seqNum,
     timestamp |-> timestamp, isFault |-> t.isFault]

status_end(t, timestamp) ==
    [type |-> STATUS_END, args |-> t.args, duration |-> t.duration, seqNum |-> t.seqNum,
     timestamp |-> timestamp, isFault |-> t.isFault]

status_error(t, timestamp, error) ==
    [type |-> STATUS_ERR, error |-> error, args |-> t.args, duration |-> t.duration,
     seqNum |-> t.seqNum, timestamp |-> timestamp, isFault |-> t.isFault]

msg_to_task(msg) ==
    [args |-> msg.args, timestamp |-> msg.timestamp, duration |-> msg.duration,
     seqNum |-> msg.seqNum, isFault |-> msg.isFault,
     cores |-> IF "cores" \in DOMAIN msg THEN msg.cores ELSE None]

-----------------------------------------------------------------------------
(* MessageEntity: the transport base, here in its server role *)

\* A frame on the wire: the (sessionTs, seqNum) header and the payload; a frame of
\* length 0 (comm = None in _send_msg) is a forwarding request
ForwardReq == [fwd |-> TRUE]
\* A payload of the announced length that json.loads rejects
BadJson == [bad |-> TRUE]
Frame(seq_num, comm) == [seq |-> seq_num, comm |-> comm]

is_status_message(msg) == "status" \in DOMAIN msg

StatusMsg(status) == [status |-> status]

\* deque(maxlen=_historyLen).append
HistoryAppend(hist, e) ==
    IF Len(hist) < historyLen THEN Append(hist, e) ELSE Append(Tail(hist), e)

\* For comparison: a send_msg that puts the message at the head of the queue
send_msg_left(q, addr, comm) == <<<<addr, comm>>>> \o q

\* send_msg(addr, comm) and broadcast_msg(comm): append under the lock, then wake the loop
send_msg(q, addr, comm) == Append(q, <<addr, comm>>)

broadcast_msg(q, comm) == Append(q, <<BroadcastAddr, comm>>)

\* For comparison: a replay of the whole history, unicasts too
RECURSIVE AllOldMsgs(_, _, _)
AllOldMsgs(hist, start_seq, addr) ==
    IF hist = <<>> THEN <<>>
    ELSE <<(<<addr, Head(hist)[3]>>)>> \o AllOldMsgs(Tail(hist), start_seq, addr)

\* For comparison: a remove_host that leaves the peer registered
keep_host(q, addr) == q

\* remove_host(addr), lines 189-199: the removal sentinel is appended under the lock;
\* the loop is not woken
remove_host(q, addr) == Append(q, <<addr, StatusMsg(CONNECTION_TOREMOVE_MSG)>>)

\* _forward_old_msgs(start_seq, addr): the broadcasts of the history that are newer
\* than start_seq, in history order, addressed to addr
RECURSIVE OldMsgs(_, _, _)
OldMsgs(hist, start_seq, addr) ==
    IF hist = <<>> THEN <<>>
    ELSE LET e == Head(hist)
             rest == OldMsgs(Tail(hist), start_seq, addr)
         IN IF LexLess(start_seq, e[1]) /\ e[2][1] = BROADCAST_ID
            THEN <<(<<addr, e[3]>>)>> \o rest
            ELSE rest

forward_old_msgs(q, hist, start_seq, addr) == q \o OldMsgs(hist, start_seq, addr)

\* _recv_msg: the pair (message, sequence number) read from a frame. A frame of
\* length 0 gives (None, seqnum) (lines 333-335, or lines 338-345 without replay), and
\* so does a payload on which json.loads raises JSONDecodeError (lines 339-345)
recv_msg(frame) ==
    IF frame.comm = ForwardReq
    THEN <<None, frame.seq>>
    ELSE IF frame.comm = BadJson
    THEN <<None, frame.seq>>
    ELSE <<frame.comm, frame.seq>>

\* MessageServer._update_seq_num does nothing: the server keeps no per-peer numbers
update_seq_num(addr, seq_num, received) == TRUE

\* The event loop of the server is one thread: it accepts, reads or flushes
LoopIdle == engineUp

\* _listen, accept branch, with the peer's connect: _register_host(connection)
Accept(a) ==
    /\ LoopIdle
    /\ peerSock[a] = "new"
    /\ a \notin registeredHosts
    /\ a # ctlAddr
    /\ peerSock' = [peerSock EXCEPT ![a] = "open"]
    /\ registeredHosts' = registeredHosts \cup {a}
    /\ UNCHANGED <<now, confVars, ctlVars, sends, ctlAddr, inputQueue, outputQueue, curr_seq_ts,
                   curr_seq_num, msgHistory, dummyReadable, stamped,
                   engineVars, listenVars, poolVars>>

\* _listen, lines 62-67: a frame read from the socket of a is delivered to the input
\* queue, or answered by a replay if it is a forwarding request; qs holds the two queues
Received(qs, a, frame) ==
    LET r == recv_msg(frame)
        data == r[1]
        seq_num == r[2]
    IN IF data # None
       THEN [qs EXCEPT !.inq = Append(@, <<a, data, seq_num>>)]
       ELSE IF reSendMsgs /\ seq_num # None
       THEN [qs EXCEPT !.outq = forward_old_msgs(@, msgHistory, seq_num, a)]
       ELSE qs

RECURSIVE ReceivedAll(_, _, _)
ReceivedAll(qs, a, frames) ==
    IF frames = <<>> THEN qs
    ELSE At(LAMBDA r : ReceivedAll(r, a, Tail(frames)), Received(qs, a, Head(frames)))

\* _listen, read branch: the frames written to the connection of a are read, in order
Receive(a, frames) ==
    LET qs == ReceivedAll([inq |-> inputQueue, outq |-> outputQueue], a, frames)
    IN /\ inputQueue' = qs.inq
       /\ outputQueue' = qs.outq

\* _listen, read branch: the liveness check fails (the peer has closed), _remove_host
ServerDetectClose(a) ==
    /\ LoopIdle
    /\ a \in registeredHosts
    /\ peerSock[a] = "closed"
    /\ registeredHosts' = registeredHosts \ {a}
    /\ UNCHANGED <<now, confVars, ctlVars, netVars, inputQueue, outputQueue, curr_seq_ts,
                   curr_seq_num, msgHistory, dummyReadable, stamped,
                   engineVars, listenVars, poolVars>>

\* Client._listen, read branch: a frame of the engine is put on the input queue of the
\* controller's client; the header of the last frame is kept when replay is enabled
ClientReceived(c, frame) ==
    LET r == recv_msg(frame)
        data == r[1]
        seq_num == r[2]
    IN IF data # None
       THEN [c EXCEPT !.inputQueue = Append(@, <<EngineAddr, data>>),
                      !.lastRecvSeq = IF reSendMsgs THEN seq_num ELSE @]
       ELSE IF reSendMsgs
       THEN [c EXCEPT !.outputQueue = forward_old_msgs(@, c.msgHistory, seq_num, EngineAddr)]
       ELSE c

RECURSIVE ClientReceivedAll(_, _)
ClientReceivedAll(c, frames) ==
    IF frames = <<>> THEN c
    ELSE At(LAMBDA r : ClientReceivedAll(r, Tail(frames)), ClientReceived(c, Head(frames)))

\* The sequence number after one more frame (lines 229-232)
NextSeqNum(num) == (num + 1) % seq_num_lim

\* For comparison: a session timestamp that is never refreshed
KeepSeqTs(ts, num) == ts

NextSeqTs(ts, num) == IF NextSeqNum(num) = 0 THEN now ELSE ts

\* _flush_output_queue, one iteration of the loop (lines 210-232) on the item at the
\* head of the queue; st holds the fields the loop updates, failed the peers on which
\* sendall raises
FlushItem(st, item, failed) ==
    LET addr == item[1]
        msg == item[2]
        seq_num == <<st.ts, st.num>>
        targets == IF addr[1] = BROADCAST_ID THEN st.hosts ELSE {addr} \cap st.hosts
    IN IF is_status_message(msg) /\ msg.status = CONNECTION_TOREMOVE_MSG
       THEN [st EXCEPT !.hosts = @ \ {addr}]
       ELSE [ts |-> NextSeqTs(st.ts, st.num),
             num |-> NextSeqNum(st.num),
             hist |-> IF reSendMsgs
                      THEN HistoryAppend(st.hist, <<seq_num, addr, msg>>)
                      ELSE st.hist,
             hosts |-> st.hosts \ (targets \cap failed),
             delivered |-> IF ctlAddr \in targets \ failed /\ peerSock[ctlAddr] = "open"
                           THEN Append(st.delivered, Frame(seq_num, msg))
                           ELSE st.delivered,
             stamps |-> Append(st.stamps, seq_num),
             wrapped |-> st.wrapped \/ (NextSeqNum(st.num) = 0 /\ now <= st.ts)]

RECURSIVE FlushItems(_, _, _)
FlushItems(st, q, failed) ==
    IF q = <<>> THEN st
    ELSE At(LAMBDA r : FlushItems(r, Tail(q), failed), FlushItem(st, Head(q), failed))

\* _flush_output_queue (lines 201-232): the wakeup socket is drained and the n_msg items
\* of the queue are sent. The peers whose end is closed may make sendall raise. A flush
\* that would wrap the sequence number within the second of the previous refresh of
\* _curr_seq_ts is left out: _seq_num_lim frames take longer than a second to send
FlushOutputQueue ==
    /\ LoopIdle
    /\ dummyReadable
    /\ \E failed \in SUBSET {a \in registeredHosts : peerSock[a] = "closed"} :
         LET st == FlushItems([ts |-> curr_seq_ts, num |-> curr_seq_num,
                               hist |-> msgHistory, hosts |-> registeredHosts,
                               delivered |-> <<>>, stamps |-> stamped,
                               wrapped |-> FALSE],
                              outputQueue, failed)
         IN /\ ~st.wrapped
            /\ curr_seq_ts' = st.ts
            /\ curr_seq_num' = st.num
            /\ msgHistory' = st.hist
            /\ registeredHosts' = st.hosts
            /\ client' = ClientReceivedAll(client, st.delivered)
            /\ stamped' = st.stamps
    /\ dummyReadable' = FALSE
    /\ outputQueue' = <<>>
    /\ UNCHANGED <<now, confVars, injector, netVars, inputQueue, engineVars, listenVars,
                   poolVars>>

-----------------------------------------------------------------------------
(* InjectionThreadPool: the worker pool of the engine *)

Slots == 1..PoolSize

IdleThread == [st |-> "idle", task |-> None, since |-> 0]

\* Nobody is inside pool.stop()
NoStop == [pc |-> "none", i |-> 0]

\* ThreadPool.start: fresh worker threads, all waiting on the queue semaphore
FreshThreads == [i \in Slots |-> IdleThread]

\* active_tasks: the slots whose subprocess is running
active_tasks == Cardinality({i \in Slots : threads[i].st = "running"})

\* _execute_task, lines 342-344, in tenths of a second:
\* task.timestamp - _session_start - (time() - _session_start_abs + _correction_factor)
time_to_task(task) ==
    10 * (task.timestamp - session_start - (now - session_start_abs)) - correction_factor

\* correct_time, lines 297-301: the correction factor after a CORRECT-TIME carrying
\* timestamp (0.1 * diff is diff tenths of a second for a diff in seconds)
CorrectedFactor(timestamp) ==
    LET my_timestamp == now - session_start_abs + session_start
        diff10 == 10 * (timestamp - my_timestamp) - correction_factor
    IN IF Abs(diff10) > 10 * CORRECTION_THRESHOLD
       THEN correction_factor + (diff10 \div 10)
       ELSE correction_factor

\* For comparison: every end of a task is reported as an error
AlwaysError(task, timestamp, rcode) == status_error(task, timestamp, rcode)

\* _process_result: the message broadcast when a task ends with rcode
ResultMsg(task, timestamp, rcode) ==
    IF rcode # 0 THEN status_error(task, timestamp, rcode) ELSE status_end(task, timestamp)

\* What the pool leaves unchanged when a worker acts
WorkerFrame ==
    UNCHANGED <<now, confVars, ctlVars, netVars, registeredHosts, inputQueue, curr_seq_ts,
                curr_seq_num, msgHistory, stamped, engineVars, listenVars,
                poolInitialized, stopCall, session_start, session_start_abs,
                correction_factor, skip_expired, retry_tasks, poolStarts, submitted>>

\* _working_loop, lines 221-230, and _execute_task up to the wait or the spawn:
\* the worker takes the first task of the queue
WorkerTake(i) ==
    /\ engineUp /\ poolInitialized
    /\ threads[i].st = "idle"
    /\ queueSem > 0
    /\ poolQueue # <<>>
    /\ LET task == Head(poolQueue)
           ttt == time_to_task(task)
       IN /\ poolQueue' = Tail(poolQueue)
          /\ queueSem' = queueSem - 1
          /\ IF ttt > 0
             THEN \* wait(time_to_task) on the sleep condition
                  /\ threads' = [threads EXCEPT ![i] =
                                   [st |-> "sleeping", task |-> task,
                                    since |-> now + ((ttt + 9) \div 10)]]
                  /\ UNCHANGED <<outputQueue, dummyReadable>>
             ELSE IF ttt < 0 /\ skip_expired
             THEN \* the start time has expired: _process_result(task, time(), -1)
                  /\ outputQueue' = broadcast_msg(outputQueue, ResultMsg(task, now, -1))
                  /\ dummyReadable' = TRUE
                  /\ UNCHANGED threads
             ELSE \* the task is due: it goes on to the spawn
                  /\ threads' = [threads EXCEPT ![i] =
                                   [st |-> "sleeping", task |-> task, since |-> now]]
                  /\ UNCHANGED <<outputQueue, dummyReadable>>
    /\ WorkerFrame

\* _execute_task, lines 356-375: the wait is over, the subprocess is spawned (or the
\* spawn raises) and the peers are told
WorkerSpawn(i, spawned) ==
    /\ engineUp /\ poolInitialized
    /\ threads[i].st = "sleeping"
    /\ now >= threads[i].since
    /\ LET task == threads[i].task
       IN IF spawned
          THEN /\ threads' = [threads EXCEPT ![i] =
                                [st |-> "running", task |-> task, since |-> now]]
               /\ outputQueue' = broadcast_msg(outputQueue, status_start(task, now))
          ELSE /\ threads' = [threads EXCEPT ![i] = IdleThread]
               /\ outputQueue' = broadcast_msg(outputQueue, ResultMsg(task, now, -1))
    /\ dummyReadable' = TRUE
    /\ UNCHANGED <<poolQueue, queueSem>>
    /\ WorkerFrame

\* _execute_task, lines 376-398 and 405: the subprocess exits by itself with rcode
WorkerProcExit(i, rcode) ==
    /\ engineUp /\ poolInitialized
    /\ threads[i].st = "running"
    /\ LET task == threads[i].task
           task_timeout == task.duration - (now - threads[i].since)
       IN /\ task.duration # 0 => task_timeout > 0
          /\ IF task.duration # 0 /\ retry_tasks
             THEN \* the task is run again for what is left of its duration
                  UNCHANGED <<threads, outputQueue, dummyReadable>>
             ELSE /\ threads' = [threads EXCEPT ![i] = IdleThread]
                  /\ outputQueue' = broadcast_msg(outputQueue, ResultMsg(task, now, rcode))
                  /\ dummyReadable' = TRUE
    /\ UNCHANGED <<poolQueue, queueSem>>
    /\ WorkerFrame

\* _execute_task, lines 400-405: the duration has elapsed, the subprocess is killed
\* and the task ends with return code 0
WorkerTimeout(i) ==
    /\ engineUp /\ poolInitialized
    /\ threads[i].st = "running"
    /\ threads[i].task.duration # 0
    /\ now - threads[i].since >= threads[i].task.duration
    /\ threads' = [threads EXCEPT ![i] = IdleThread]
    /\ outputQueue' = broadcast_msg(outputQueue, ResultMsg(threads[i].task, now, 0))
    /\ dummyReadable' = TRUE
    /\ UNCHANGED <<poolQueue, queueSem>>
    /\ WorkerFrame

-----------------------------------------------------------------------------
(* InjectorEngine: the session manager *)

\* listen, line 75: SET-TIME is applied
SetTimeGuard(addr, msg) ==
    msg.type = COMMAND_SET_TIME /\ master # None /\ addr = master

\* listen, line 78: CORRECT-TIME is applied
CorrectTimeGuard(addr, msg) ==
    msg.type = COMMAND_CORRECT_TIME /\ master # None /\ addr = master

\* _check_for_termination, line 99: TERMINATE is applied
TerminateGuard(addr, msg) ==
    addr = master /\ msg.type = COMMAND_TERMINATE

\* A weaker guard, for comparison: the START command of any registered peer
AnyPeerGuard(addr, msg) == addr \in registeredHosts /\ msg.type = COMMAND_START

\* listen, line 84: a START command is put on the pool's queue
StartGuard(addr, msg) ==
    addr = master /\ msg.type = COMMAND_START

\* _update_session, line 114: END-SESSION closes the session
EndSessionGuard(addr, msg) ==
    msg.type = COMMAND_END_SESSION /\ addr = master

\* For comparison: a START-SESSION is accepted from anybody
AcceptsAnybody(addr) == TRUE

\* _update_session, line 123: a START-SESSION of addr is accepted
AcceptsSession(addr) ==
    master = None \/ master \notin registeredHosts \/ master = addr

\* For comparison: the pool is reset whatever the session timestamp, or only
\* when no session is open
AlwaysReset(session_ts) == TRUE
ResetWithoutMaster(session_ts) == ~reSendMsgs \/ master = None

\* _update_session, line 128: an accepted START-SESSION resets the pool
MustReset(session_ts) ==
    ~reSendMsgs \/ session_timestamp # session_ts \/ master = None

\* What a step of the engine's main thread leaves unchanged
ListenFrame ==
    UNCHANGED <<now, confVars, ctlVars, peerSock, sends, ctlAddr, curr_seq_ts,
                curr_seq_num, msgHistory, stamped, skip_expired, stopCall>>

\* _update_session(addr, msg), lines 112-141
UpdateSession(addr, msg) ==
    /\ IF EndSessionGuard(addr, msg)
       THEN /\ master' = None
            /\ session_timestamp' = NoSession
            /\ outputQueue' = send_msg(outputQueue, addr, ack(now, TRUE, None))
            /\ UNCHANGED <<threads, retry_tasks, poolInitialized, poolStarts>>
       ELSE IF msg.type = COMMAND_START_SESSION /\ AcceptsSession(addr)
       THEN /\ IF MustReset(msg.timestamp)
               THEN \* pool.stop(kill_abruptly=True); pool.start()
                    /\ threads' = FreshThreads
                    /\ retry_tasks' = IF poolInitialized THEN FALSE ELSE retry_tasks
                    /\ poolInitialized' = TRUE
                    /\ poolStarts' = poolStarts + 1
                    /\ outputQueue' = send_msg(outputQueue, addr, ack(now, TRUE, <<-1>>))
               ELSE /\ outputQueue' = send_msg(outputQueue, addr, ack(now, TRUE, None))
                    /\ UNCHANGED <<threads, retry_tasks, poolInitialized, poolStarts>>
            /\ master' = addr
            /\ session_timestamp' = msg.timestamp
       ELSE /\ outputQueue' = send_msg(outputQueue, addr, ack(now, FALSE, None))
            /\ UNCHANGED <<master, session_timestamp, threads, retry_tasks,
                           poolInitialized, poolStarts>>
    /\ dummyReadable' = TRUE
    /\ UNCHANGED <<engineUp, registeredHosts, poolQueue, queueSem, session_start,
                   session_start_abs, correction_factor, submitted>>

\* _signalhandler: the pool and the server are stopped, the process exits
Terminate ==
    /\ engineUp' = FALSE
    /\ poolInitialized' = FALSE
    /\ threads' = FreshThreads
    /\ registeredHosts' = {}
    /\ UNCHANGED <<master, session_timestamp, outputQueue, dummyReadable, poolQueue,
                   queueSem, retry_tasks, session_start, session_start_abs, correction_factor,
                   poolStarts, submitted>>

\* listen, lines 67-90: one message is popped from the input queue and processed;
\* seq is not known to the engine: it is the header of the frame the message came in
Listen ==
    /\ engineUp
    /\ inputQueue # <<>>
    /\ inputQueue' = Tail(inputQueue)
    /\ handled' = <<Head(inputQueue)[1], Head(inputQueue)[2]>>
    /\ LET addr == Head(inputQueue)[1]
           msg == Head(inputQueue)[2]
       IN IF msg.type \in {COMMAND_START_SESSION, COMMAND_END_SESSION}
          THEN UpdateSession(addr, msg)
          ELSE IF SetTimeGuard(addr, msg)
          THEN \* pool.reset_session(msg.timestamp, time())
               /\ session_start' = msg.timestamp
               /\ session_start_abs' = now
               /\ UNCHANGED <<engineVars, registeredHosts, outputQueue,
                              dummyReadable, poolInitialized, poolQueue, queueSem, threads,
                              correction_factor, retry_tasks, poolStarts, submitted>>
          ELSE IF CorrectTimeGuard(addr, msg)
          THEN /\ correction_factor' = CorrectedFactor(msg.timestamp)
               /\ UNCHANGED <<engineVars, registeredHosts, outputQueue,
                              dummyReadable, poolInitialized, poolQueue, queueSem, threads,
                              session_start, session_start_abs, retry_tasks, poolStarts,
                              submitted>>
          ELSE IF msg.type = COMMAND_TERMINATE
          THEN IF TerminateGuard(addr, msg)
               THEN Terminate
               ELSE UNCHANGED <<engineVars, registeredHosts, outputQueue,
                                dummyReadable, poolVars>>
          ELSE IF StartGuard(addr, msg)
          THEN \* pool.submit_task(Task.msg_to_task(msg))
               /\ IF poolInitialized
                  THEN /\ poolQueue' = Append(poolQueue, msg_to_task(msg))
                       /\ queueSem' = queueSem + 1
                       /\ submitted' = Append(submitted, <<addr, Head(inputQueue)[3], msg>>)
                  ELSE UNCHANGED <<poolQueue, queueSem, submitted>>
               /\ UNCHANGED <<engineVars, registeredHosts, outputQueue,
                              dummyReadable, poolInitialized, threads, session_start,
                              session_start_abs, correction_factor, retry_tasks, poolStarts>>
          ELSE IF msg.type = COMMAND_GREET
          THEN /\ outputQueue' = send_msg(outputQueue, addr,
                                          status_greet(now, active_tasks, master # None))
               /\ dummyReadable' = TRUE
               /\ UNCHANGED <<engineVars, registeredHosts, poolVars>>
          ELSE \* 'Invalid command sent from non-master host'
               UNCHANGED <<engineVars, registeredHosts, outputQueue,
                           dummyReadable, poolVars>>
    /\ ListenFrame

-----------------------------------------------------------------------------
(* Client: the transport of the controller, connected to one engine *)

CONNECTION_FINALIZED_MSG == -1
CONNECTION_LOST_MSG == 0
CONNECTION_RESTORED_MSG == 1

\* Client.__init__: no server added yet; outage is a history field: the sequence
\* numbers of the START commands broadcast before the connection dropped
NewClient ==
    [registered |-> FALSE, sock |-> "none", dangling |-> None, inputQueue |-> <<>>,
     outputQueue |-> <<>>, dummyReadable |-> FALSE, curr_seq_ts |-> 0, curr_seq_num |-> 0,
     msgHistory |-> <<>>, lastRecvSeq |-> <<0, 0>>, outage |-> {}]

\* add_servers: the connection to the engine is open and registered
ConnectedClient == [NewClient EXCEPT !.registered = TRUE, !.sock = "open"]

\* The event loop of the client runs from _client.start() to _client.stop()
ClientRunning == ctlAddr # None /\ injector.phase \notin {"new", "done"}

\* The engine's end of a connection that the client has closed
ClosedByClient(c) ==
    IF client.registered /\ ~c.registered
    THEN [peerSock EXCEPT ![ctlAddr] = "closed"]
    ELSE peerSock

\* For comparison: a removal that tells the upper layer nothing
SilentRemoveHost(c) ==
    [c EXCEPT !.registered = FALSE,
              !.dangling = IF @ = None
                           THEN <<now - RetryPeriod, now - RetryPeriod>>
                           ELSE @]

\* Client._remove_host(address): the socket is closed, CONNECTION_LOST is put on the
\* input queue and the address becomes dangling, its first retry being due at once
ClientRemoveHost(c) ==
    [c EXCEPT !.registered = FALSE,
              !.inputQueue = Append(@, <<EngineAddr, StatusMsg(CONNECTION_LOST_MSG)>>),
              !.dangling = IF @ = None
                           THEN <<now - RetryPeriod, now - RetryPeriod>>
                           ELSE @]

\* _flush_output_queue, one iteration of the loop on the item at the head of the
\* queue; st.c holds the client's fields, st.wire the frames written to the socket;
\* fail tells whether sendall raises on a broken connection (else the frame is lost)
ClientFlushItem(st, item, fail) ==
    LET addr == item[1]
        msg == item[2]
        c == st.c
        seq_num == <<c.curr_seq_ts, c.curr_seq_num>>
        stamped_c == [c EXCEPT !.curr_seq_ts = NextSeqTs(c.curr_seq_ts, c.curr_seq_num),
                               !.curr_seq_num = NextSeqNum(c.curr_seq_num),
                               !.msgHistory = IF reSendMsgs
                                              THEN HistoryAppend(@, <<seq_num, addr, msg>>)
                                              ELSE @]
        attempted == c.registered \/ addr[1] # BROADCAST_ID
        sent == c.registered /\ ~(c.sock = "broken" /\ fail)
    IN IF is_status_message(msg) /\ msg.status = CONNECTION_TOREMOVE_MSG
       THEN [st EXCEPT !.c.registered = FALSE]
       ELSE [c |-> IF attempted /\ ~sent THEN ClientRemoveHost(stamped_c) ELSE stamped_c,
             wire |-> IF sent /\ c.sock = "open"
                      THEN Append(st.wire, Frame(seq_num, msg))
                      ELSE st.wire,
             wrapped |-> st.wrapped \/ (NextSeqNum(c.curr_seq_num) = 0 /\ now <= c.curr_seq_ts)]

RECURSIVE ClientFlushItems(_, _, _)
ClientFlushItems(st, q, fail) ==
    IF q = <<>> THEN st
    ELSE At(LAMBDA r : ClientFlushItems(r, Tail(q), fail), ClientFlushItem(st, Head(q), fail))

\* _listen, wakeup branch: _flush_output_queue
ClientFlush ==
    /\ ClientRunning
    /\ client.dummyReadable
    /\ \E fail \in BOOLEAN :
         /\ fail => client.registered /\ client.sock = "broken"
         /\ LET st == ClientFlushItems([c |-> client, wire |-> <<>>, wrapped |-> FALSE],
                                       client.outputQueue, fail)
            IN /\ ~st.wrapped
               /\ client' = [st.c EXCEPT !.outputQueue = <<>>, !.dummyReadable = FALSE]
               /\ Receive(ctlAddr, IF engineUp /\ ctlAddr \in registeredHosts
                                    THEN st.wire
                                    ELSE <<>>)
               /\ peerSock' = ClosedByClient(st.c)
    /\ UNCHANGED <<now, confVars, sends, ctlAddr, injector, registeredHosts, curr_seq_ts,
                   curr_seq_num, msgHistory, dummyReadable, stamped, engineVars, listenVars,
                   poolVars>>

\* _listen, read branch: the liveness check fails on a broken connection
ClientDetectClose ==
    /\ ClientRunning
    /\ client.registered
    /\ client.sock = "broken"
    /\ client' = ClientRemoveHost(client)
    /\ UNCHANGED <<now, confVars, netVars, injector, entityVars, engineVars, listenVars,
                   poolVars>>

\* The addresses no connection has come from yet
FreshAddrs == {k \in DOMAIN ConnectOrder : peerSock[ConnectOrder[k]] = "new"}

\* _restore_dangling_connections: the retry interval is over and the connection is
\* finalized, or a retry is due and the engine is dialled again (ok: the dial succeeds).
\* A dial that fails is followed only while the clock of the model can still advance
ClientRestore(ok) ==
    /\ ClientRunning
    /\ client.dangling # None
    /\ LET first_time == client.dangling[2]
           last_try == client.dangling[1]
       IN IF now - first_time > RetryInterval
          THEN /\ client' = [client EXCEPT
                               !.registered = FALSE,
                               !.dangling = None,
                               !.inputQueue =
                                  Append(@, <<EngineAddr, StatusMsg(CONNECTION_FINALIZED_MSG)>>)]
               /\ UNCHANGED <<peerSock, ctlAddr, registeredHosts, inputQueue, outputQueue>>
          ELSE /\ now - last_try >= RetryPeriod
               /\ IF ok
                  THEN /\ engineUp
                       /\ FreshAddrs # {}
                       /\ LET new == ConnectOrder[CHOOSE k \in FreshAddrs :
                                                    \A j \in FreshAddrs : k <= j]
                          IN /\ ctlAddr' = new
                             /\ peerSock' = [peerSock EXCEPT ![new] = "open"]
                             /\ registeredHosts' = registeredHosts \cup {new}
                             /\ Receive(new, IF reSendMsgs
                                             THEN <<Frame(client.lastRecvSeq, ForwardReq)>>
                                             ELSE <<>>)
                       /\ client' = [client EXCEPT
                                       !.registered = TRUE,
                                       !.sock = "open",
                                       !.dangling = None,
                                       !.outputQueue =
                                          IF reSendMsgs
                                          THEN forward_old_msgs(@, client.msgHistory,
                                                                client.lastRecvSeq, EngineAddr)
                                          ELSE @,
                                       !.inputQueue =
                                          Append(@, <<EngineAddr,
                                                      StatusMsg(CONNECTION_RESTORED_MSG)>>)]
                  ELSE /\ now < MaxTime
                       /\ client' = [client EXCEPT !.dangling = <<now, first_time>>]
                       /\ UNCHANGED <<peerSock, ctlAddr, registeredHosts, inputQueue,
                                      outputQueue>>
    /\ UNCHANGED <<now, confVars, sends, injector, curr_seq_ts, curr_seq_num, msgHistory,
                   dummyReadable, stamped, engineVars, listenVars, poolVars>>

-----------------------------------------------------------------------------
(* InjectorClient: the controller *)

STATUS_RESET == "status_reset"
STATUS_LOST == "detected_lost"
STATUS_RESTORED == "detected_restored"

status_connection(timestamp, restored) ==
    [type |-> IF restored THEN STATUS_RESTORED ELSE STATUS_LOST, timestamp |-> timestamp]

\* For comparison: a reset that is logged as one more restored connection
unmarked_reset(timestamp) == [type |-> STATUS_RESTORED, timestamp |-> timestamp]

status_reset(timestamp) == [type |-> STATUS_RESET, timestamp |-> timestamp]

\* The workload the reader yields, ordered by timestamp
Workload == <<Task(10, 1, 1), Task(11, 2, 1)>>

\* The max_tasks argument of inject: none, or one task
TaskLimits == {None, <<1>>}

SessionWait == 60
ClockCorrectionPeriod == 30

\* InjectorClient.__init__, with the arguments and the locals of _inject and
\* _init_session; cleared, popped and refused are history fields: the sequence numbers
\* taken from a pending set by a reset, the addresses whose pending set was dropped, and
\* the addresses that refused to resume the session
NewInjector ==
    [phase |-> "new", max_tasks |-> None, session_id |-> None, pendingTasks |-> <<>>,
     endReached |-> FALSE,
     read_tasks |-> 0, start_timestamp |-> 0, start_timestamp_abs |-> 0,
     last_clock_correction |-> 0, session_start_timestamp |-> 0, session_check_start |-> 0,
     session_sent |-> 0, session_replied |-> 0, session_accepted |-> {},
     session_closed |-> 0, writers |-> <<>>, cleared |-> {}, popped |-> {}, refused |-> {}]

\* Python dictionaries: d[k] = v and d.pop(k, None)
DictSet(d, k, v) == [a \in DOMAIN d \cup {k} |-> IF a = k THEN v ELSE d[a]]
\* For comparison: a pop that leaves the dictionary as it is
DictKeep(d, k) == d

DictPop(d, k) == [a \in DOMAIN d \ {k} |-> d[a]]

\* For comparison: a writer that drops its entries
DropEntry(inj, addr, e) == inj

\* self._writers[addr].write_entry(e)
WriteEntry(inj, addr, e) == [inj EXCEPT !.writers[addr] = Append(@, e)]

\* get_n_registered_hosts of the client
n_registered_hosts == IF client.registered THEN 1 ELSE 0

\* For comparison: a virtual clock that stays at the start of the workload
FrozenTimestamp(inj, t) == inj.start_timestamp

\* _get_timestamp(t)
get_timestamp(inj, t) == inj.start_timestamp + (t - inj.start_timestamp_abs)

\* For comparison: a controller that never waits for its pending tasks
NeverPending(inj) == FALSE

\* _tasks_are_pending
tasks_are_pending(inj) == \E a \in DOMAIN inj.pendingTasks : inj.pendingTasks[a] # {}

\* The sequence numbers of the tasks read from the workload and broadcast as START
Dispatched(inj) == {Workload[k].seqNum : k \in 1..inj.read_tasks}

\* _process_msg_inject(addr, msg); st holds the controller, the output queue of its
\* client and whether the client's loop was woken up
process_msg_inject(st, addr, msg) ==
    LET inj == st.inj
    IN IF is_status_message(msg) /\ msg.status = CONNECTION_LOST_MSG
       THEN IF addr \in DOMAIN inj.writers
            THEN [st EXCEPT !.inj = WriteEntry(inj, addr, status_connection(now, FALSE))]
            ELSE \* KeyError
                 [st EXCEPT !.inj.phase = "failed"]
       ELSE IF is_status_message(msg) /\ msg.status = CONNECTION_RESTORED_MSG
       THEN [st EXCEPT
               !.out = send_msg(send_msg(@, addr, command_session(inj.session_id[1], FALSE)),
                                addr, command_set_time(get_timestamp(inj, now))),
               !.wake = TRUE]
       ELSE IF is_status_message(msg) /\ msg.status = CONNECTION_FINALIZED_MSG
       THEN LET p == DictPop(inj.pendingTasks, addr)
            IN [st EXCEPT !.inj = [inj EXCEPT !.pendingTasks = p,
                                              !.endReached = IF DOMAIN p = {} THEN TRUE ELSE @,
                                              !.popped = @ \cup {addr}]]
       ELSE IF addr \notin DOMAIN inj.writers /\ msg.type # ACK_NO
       THEN \* KeyError: no engine without a writer is written to
            [st EXCEPT !.inj.phase = "failed"]
       ELSE LET logged == IF msg.type \notin {ACK_YES, ACK_NO}
                          THEN WriteEntry(inj, addr, msg)
                          ELSE inj
            IN IF msg.type \in {STATUS_END, STATUS_ERR}
               THEN IF addr \in DOMAIN inj.pendingTasks
                    THEN [st EXCEPT !.inj = [logged EXCEPT
                                               !.pendingTasks[addr] = @ \ {msg.seqNum}]]
                    ELSE \* KeyError
                         [st EXCEPT !.inj = [logged EXCEPT !.phase = "failed"]]
               ELSE IF msg.type = ACK_YES
               THEN LET w == WriteEntry(logged, addr, status_connection(now, TRUE))
                    IN IF "error" \in DOMAIN msg
                       THEN [st EXCEPT !.inj =
                               [WriteEntry(w, addr, status_reset(msg.timestamp)) EXCEPT
                                  !.pendingTasks = DictSet(@, addr, {}),
                                  !.cleared = IF addr \in DOMAIN inj.pendingTasks
                                              THEN @ \cup inj.pendingTasks[addr]
                                              ELSE @]]
                       ELSE [st EXCEPT !.inj = w]
               ELSE IF msg.type = ACK_NO
               THEN \* self._client.remove_host(addr)
                    [st EXCEPT !.inj = [logged EXCEPT !.refused = @ \cup {addr}],
                               !.out = remove_host(@, addr)]
               ELSE [st EXCEPT !.inj = logged]

\* _inject, lines 157-161: every message of the input queue is popped and processed
RECURSIVE DrainInput(_)
DrainInput(st) ==
    IF st.rest = <<>> \/ st.inj.phase = "failed" THEN st
    ELSE At(DrainInput, [process_msg_inject(st, Head(st.rest)[1], Head(st.rest)[2])
                           EXCEPT !.rest = Tail(st.rest)])

\* _inject, lines 163-173: the periodic correction of the engines' clocks
CorrectClocks(st) ==
    IF now - st.inj.last_clock_correction > ClockCorrectionPeriod /\ PreSendInterval >= 0
    THEN [st EXCEPT !.out = broadcast_msg(@, command_correct_time(get_timestamp(st.inj, now))),
                    !.wake = TRUE,
                    !.inj.last_clock_correction = now]
    ELSE st

\* For comparison: a controller for which every task is due
always_due(inj, task, pre) == TRUE

\* _inject, line 175: the task is due within the pre-send interval pre, or the
\* sliding window is disabled
task_is_due(inj, task, pre) ==
    task.timestamp < get_timestamp(inj, now) + pre \/ pre < 0

\* _inject, lines 175-187, for the pre-send interval pre: the tasks that are due are
\* broadcast
RECURSIVE DispatchWith(_, _)
DispatchWith(st, pre) ==
    LET inj == st.inj
    IN IF /\ ~inj.endReached
          /\ task_is_due(inj, Workload[inj.read_tasks + 1], pre)
       THEN LET task == Workload[inj.read_tasks + 1]
            IN At(LAMBDA r : DispatchWith(r, pre),
                 [st EXCEPT
                    !.out = broadcast_msg(@, command_start(task)),
                    !.wake = TRUE,
                    !.inj = [inj EXCEPT
                               !.pendingTasks = [a \in DOMAIN inj.pendingTasks |->
                                                   inj.pendingTasks[a] \cup {task.seqNum}],
                               !.read_tasks = @ + 1,
                               !.endReached =
                                  \/ inj.read_tasks + 1 >= Len(Workload)
                                  \/ /\ inj.max_tasks # None
                                     /\ inj.read_tasks + 1 >= inj.max_tasks[1]]])
       ELSE st

\* _inject, lines 175-187, with the configured PRE_SEND_INTERVAL
DispatchDue(st) == DispatchWith(st, PreSendInterval)

\* What the controller leaves unchanged
CtlFrame ==
    UNCHANGED <<now, confVars, sends, ctlAddr, entityVars, engineVars,
                listenVars, poolVars>>

\* _client.stop(): the loop of the client ends and its sockets are closed
Stopped(c) == [c EXCEPT !.registered = FALSE, !.dangling = None]

\* _inject, lines 124-131, and _init_session up to its loop (lines 237-248): the
\* client is started and START-SESSION is broadcast
CtlStart ==
    /\ ctlAddr # None
    /\ injector.phase = "new"
    /\ injector' = [injector EXCEPT !.phase = "init",
                                    !.session_start_timestamp = now,
                                    !.session_sent = n_registered_hosts,
                                    !.session_check_start = now]
    /\ client' = [client EXCEPT !.outputQueue = broadcast_msg(@, command_session(now, FALSE)),
                                !.dummyReadable = TRUE]
    /\ UNCHANGED peerSock
    /\ CtlFrame

\* The condition of the loops that wait for the acks of the engines
Waiting(replied) ==
    /\ now - injector.session_check_start < SessionWait
    /\ replied < injector.session_sent

\* _init_session, lines 249-270: one message is popped while the acks are awaited
CtlInitPoll ==
    /\ ctlAddr # None
    /\ injector.phase = "init"
    /\ Waiting(injector.session_replied)
    /\ client.inputQueue # <<>>
    /\ LET addr == Head(client.inputQueue)[1]
           msg == Head(client.inputQueue)[2]
       IN IF is_status_message(msg)
          THEN \* TypeError
               /\ injector' = [injector EXCEPT !.phase = "failed"]
               /\ client' = [client EXCEPT !.inputQueue = Tail(@)]
          ELSE IF msg.type = ACK_YES
          THEN /\ injector' = [injector EXCEPT
                                 !.session_accepted = @ \cup {addr},
                                 !.session_replied = @ + 1,
                                 !.writers = DictSet(@, addr,
                                                     <<command_session(msg.timestamp, FALSE)>>),
                                 !.pendingTasks = DictSet(@, addr, {})]
               /\ client' = [client EXCEPT !.inputQueue = Tail(@)]
          ELSE IF msg.type = ACK_NO
          THEN /\ injector' = [injector EXCEPT !.session_replied = @ + 1]
               /\ client' = [client EXCEPT
                               !.inputQueue = Tail(@),
                               !.outputQueue = remove_host(@, addr)]
          ELSE /\ client' = [client EXCEPT !.inputQueue = Tail(@)]
               /\ UNCHANGED injector
    /\ UNCHANGED peerSock
    /\ CtlFrame

\* _init_session, lines 272-277, and _inject, lines 134-151: the wait is over; without
\* an accepting engine the controller gives up, else SET-TIME is broadcast and the
\* injection starts
CtlInitDone ==
    /\ ctlAddr # None
    /\ injector.phase = "init"
    /\ ~Waiting(injector.session_replied)
    /\ LET timed_out == now - injector.session_check_start >= SessionWait
           out == IF timed_out /\ client.registered
                              /\ EngineAddr \notin injector.session_accepted
                  THEN remove_host(client.outputQueue, EngineAddr)
                  ELSE client.outputQueue
           start_timestamp == Workload[1].timestamp - WorkloadPadding
       IN IF injector.session_accepted = {}
          THEN /\ injector' = [injector EXCEPT !.phase = "done"]
               /\ client' = Stopped([client EXCEPT !.outputQueue = out])
               /\ peerSock' = ClosedByClient(client')
          ELSE /\ injector' = [injector EXCEPT
                                 !.phase = "inject",
                                 !.session_id = <<injector.session_start_timestamp>>,
                                 !.endReached = FALSE,
                                 !.read_tasks = 0,
                                 !.start_timestamp = start_timestamp,
                                 !.start_timestamp_abs = now,
                                 !.last_clock_correction = now]
               /\ client' = [client EXCEPT
                               !.outputQueue =
                                  broadcast_msg(out, command_set_time(start_timestamp)),
                               !.dummyReadable = TRUE]
               /\ UNCHANGED peerSock
    /\ CtlFrame

\* _inject, lines 153-189: one iteration of the main loop
CtlIterate ==
    /\ ctlAddr # None
    /\ injector.phase = "inject"
    /\ ~injector.endReached \/ tasks_are_pending(injector)
    /\ LET s0 == [inj |-> injector, out |-> client.outputQueue, wake |-> FALSE,
                  rest |-> client.inputQueue]
           s1 == DrainInput(s0)
           s2 == IF s1.inj.phase = "failed" THEN s1 ELSE DispatchDue(CorrectClocks(s1))
       IN /\ injector' = s2.inj
          /\ client' = [client EXCEPT !.inputQueue = s2.rest,
                                      !.outputQueue = s2.out,
                                      !.dummyReadable = @ \/ s2.wake]
    /\ UNCHANGED peerSock
    /\ CtlFrame

\* _inject, line 153, and _end_session up to its loop (lines 283-289): the main loop
\* ends and END-SESSION is broadcast
CtlLoopExit ==
    /\ ctlAddr # None
    /\ injector.phase = "inject"
    /\ ~(~injector.endReached \/ tasks_are_pending(injector))
    /\ injector' = [injector EXCEPT !.phase = "end",
                                    !.session_closed = 0,
                                    !.session_sent = n_registered_hosts,
                                    !.session_check_start = now]
    /\ client' = [client EXCEPT !.outputQueue = broadcast_msg(@, command_session(now, TRUE)),
                                !.dummyReadable = TRUE]
    /\ UNCHANGED peerSock
    /\ CtlFrame

\* _end_session, lines 290-301: one message is popped while the acks are awaited
CtlEndPoll ==
    /\ ctlAddr # None
    /\ injector.phase = "end"
    /\ Waiting(injector.session_closed)
    /\ client.inputQueue # <<>>
    /\ LET addr == Head(client.inputQueue)[1]
           msg == Head(client.inputQueue)[2]
       IN injector' =
            IF is_status_message(msg)
            THEN \* TypeError
                 [injector EXCEPT !.phase = "failed"]
            ELSE IF msg.type = ACK_YES
            THEN [WriteEntry(injector, addr, command_session(msg.timestamp, TRUE))
                    EXCEPT !.session_closed = @ + 1]
            ELSE injector
    /\ client' = [client EXCEPT !.inputQueue = Tail(@)]
    /\ UNCHANGED peerSock
    /\ CtlFrame

\* _end_session, lines 305-308, and stop(): the writers are closed, the client stopped
CtlEndDone ==
    /\ ctlAddr # None
    /\ injector.phase = "end"
    /\ ~Waiting(injector.session_closed)
    /\ injector' = [injector EXCEPT !.phase = "done"]
    /\ client' = Stopped(client)
    /\ peerSock' = ClosedByClient(client')
    /\ CtlFrame

-----------------------------------------------------------------------------
(* The peers of the engine: any host may connect and write any frame *)

\* The tasks a peer may ask to start: one without and one with a duration
StartTasks == {Task(10, 1, 1)}

PeerMsgs ==
    {command_session(ts, FALSE) : ts \in SessionTss}
    \cup {command_session(1, TRUE), command_terminate, command_greet(0)}
    \cup {command_set_time(t) : t \in SetTimes}
    \cup {command_correct_time(t) : t \in CorrectTimes}
    \cup {command_start(t) : t \in StartTasks}

\* The frames a peer may write: only the header of a START command or of a
\* forwarding request is read by anybody
PeerFrames ==
    {Frame(<<1, 0>>, m) : m \in {m \in PeerMsgs : m.type # COMMAND_START}}
    \cup {Frame(st, m) : st \in PeerStamps, m \in {m \in PeerMsgs : m.type = COMMAND_START}}
    \cup {Frame(st, ForwardReq) : st \in FwdStamps}
    \cup {Frame(st, BadJson) : st \in FwdStamps}

\* A peer writes a frame and the event loop of the server reads it
PeerSend(a, frame) ==
    /\ sends < MaxSends
    /\ a # ctlAddr
    /\ peerSock[a] = "open"
    /\ LoopIdle
    /\ a \in registeredHosts
    /\ sends' = sends + 1
    /\ Receive(a, <<frame>>)
    /\ UNCHANGED <<now, confVars, ctlVars, peerSock, ctlAddr, registeredHosts,
                   curr_seq_ts, curr_seq_num, msgHistory, dummyReadable, stamped,
                   engineVars, listenVars, poolVars>>

PeerClose(a) ==
    /\ a # ctlAddr
    /\ peerSock[a] = "open"
    /\ peerSock' = [peerSock EXCEPT ![a] = "closed"]
    /\ UNCHANGED <<now, confVars, ctlVars, sends, ctlAddr, entityVars,
                   engineVars, listenVars, poolVars>>

\* The wall clock advances by one second
Tick ==
    /\ now < MaxTime
    /\ now' = now + 1
    /\ UNCHANGED <<confVars, ctlVars, netVars, registeredHosts, inputQueue, outputQueue,
                   curr_seq_ts, curr_seq_num, msgHistory, dummyReadable, stamped,
                   engineVars, listenVars, poolVars>>

-----------------------------------------------------------------------------
(* The engine with its server transport and its pool, serving arbitrary peers *)

\* The state once listen() has started the server and the pool
EngineInit ==
    /\ now = 0
    /\ reSendMsgs \in BOOLEAN
    /\ inputQueue = <<>>
    /\ outputQueue = <<>>
    /\ curr_seq_ts = 0
    /\ curr_seq_num = 0
    /\ msgHistory = <<>>
    /\ dummyReadable = FALSE
    /\ stamped = <<>>
    /\ master = None
    /\ session_timestamp = NoSession
    /\ engineUp = TRUE
    /\ handled = None
    /\ poolInitialized = TRUE
    /\ poolQueue = <<>>
    /\ queueSem = 0
    /\ stopCall = NoStop
    /\ threads = FreshThreads
    /\ session_start = 0
    /\ session_start_abs = 0
    /\ correction_factor = 0
    /\ skip_expired = TRUE
    /\ retry_tasks = TRUE
    /\ poolStarts = 0
    /\ submitted = <<>>

Init ==
    /\ EngineInit
    /\ seq_num_lim = SeqNumLim
    /\ historyLen = HistoryLen
    /\ registeredHosts = {}
    /\ client = NewClient
    /\ injector = NewInjector
    /\ peerSock = [a \in Addrs |-> "new"]
    /\ sends = 0
    /\ ctlAddr = None

EngineNext ==
    \/ \E a \in Addrs : ServerDetectClose(a)
    \/ FlushOutputQueue
    \/ Listen
    \/ \E i \in Slots : WorkerTake(i)
    \/ \E i \in Slots, spawned \in BOOLEAN : WorkerSpawn(i, spawned)
    \/ \E i \in Slots, rcode \in {0, 1} : WorkerProcExit(i, rcode)
    \/ \E i \in Slots : WorkerTimeout(i)

\* A host connects; the hosts being interchangeable, they connect in ConnectOrder
PeerConnect(k) ==
    /\ \A j \in 1..(k - 1) : peerSock[ConnectOrder[j]] # "new"
    /\ Accept(ConnectOrder[k])

Next ==
    \/ Tick
    \/ \E k \in DOMAIN ConnectOrder : PeerConnect(k)
    \/ \E a \in Addrs, frame \in PeerFrames : PeerSend(a, frame)
    \/ \E a \in Addrs : PeerClose(a)
    \/ EngineNext

Spec == Init /\ [][Next]_vars

-----------------------------------------------------------------------------
(* The controller injecting its workload into one engine *)

\* The network drops the controller's first connection while the injection runs: both
\* ends will find it closed, and the frames in flight are lost
NetDrop ==
    /\ ctlAddr # None
    /\ injector.phase = "inject"
    /\ client.registered
    /\ client.sock = "open"
    /\ peerSock[ctlAddr] = "open"
    /\ FreshAddrs # {}
    /\ client' = [client EXCEPT !.sock = "broken", !.outage = Dispatched(injector)]
    /\ peerSock' = [peerSock EXCEPT ![ctlAddr] = "closed"]
    /\ UNCHANGED <<now, confVars, sends, ctlAddr, injector, entityVars, engineVars,
                   listenVars, poolVars>>

\* The engine is listening and the controller is built: its client is connected
InitInject ==
    /\ EngineInit
    /\ seq_num_lim = LongSeqNumLim
    /\ historyLen = LongHistoryLen
    /\ ctlAddr = ConnectOrder[1]
    /\ peerSock = [a \in Addrs |-> IF a = ConnectOrder[1] THEN "open" ELSE "new"]
    /\ registeredHosts = {ConnectOrder[1]}
    /\ sends = 0
    /\ client = ConnectedClient
    /\ \E m \in TaskLimits : injector = [NewInjector EXCEPT !.max_tasks = m]

ClientNext ==
    \/ ClientFlush
    \/ ClientDetectClose
    \/ \E ok \in BOOLEAN : ClientRestore(ok)

CtlNext ==
    \/ CtlStart
    \/ CtlInitPoll
    \/ CtlInitDone
    \/ CtlIterate
    \/ CtlLoopExit
    \/ CtlEndPoll
    \/ CtlEndDone

NextInject ==
    \/ Tick
    \/ NetDrop
    \/ EngineNext
    \/ ClientNext
    \/ CtlNext

SpecInject == InitInject /\ [][NextInject]_vars

\* The whole workload is injected with replay enabled (RECOVER_AFTER_DISCONNECT)
InitReplay ==
    /\ InitInject
    /\ reSendMsgs
    /\ injector.max_tasks = None

\* The connection drops after START commands were broadcast
DropAfterStart == NetDrop /\ Dispatched(injector) # {}

NextReplay ==
    \/ Tick
    \/ DropAfterStart
    \/ EngineNext
    \/ ClientNext
    \/ CtlNext

\* The threads of the engine and of the controller keep running and the clock keeps
\* advancing; the network may or may not drop the connection
FairInject ==
    /\ InitReplay
    /\ [][NextReplay]_vars
    /\ WF_vars(Tick)
    /\ WF_vars(EngineNext)
    /\ WF_vars(ClientNext)
    /\ WF_vars(CtlNext)

-----------------------------------------------------------------------------
(* InjectionThreadPool on its own, one step per access to a lock, to a condition, *)
(* to the semaphore or to a subprocess *)

PoolWorkers == 2        \* stands for max_requests = 20 worker threads
PoolTasksMax == 2       \* tasks submitted to the pool in one behaviour

\* ThreadWrapper.__init__, lines 20-32, with the locals of _execute_task:
\* process is _process (no Popen object, one that runs, one that has exited),
\* returncode is _process.returncode, p is "the local p is a Popen object",
\* since is task_start_time (or the end of the sleep), ended is task_end_time,
\* time_to_task is in tenths of a second. lost is a history field: the subprocesses
\* spawned in the slot that were running when _process was overwritten
NewThread ==
    [st |-> "idle", task |-> None, since |-> 0, hasToFinish |-> FALSE, process |-> "none",
     returncode |-> 0, time_to_task |-> 0, p |-> FALSE, rcode |-> 0, ended |-> 0,
     lost |-> 0]

\* ThreadWrapper.terminate, lines 34-40
terminate(t) == [t EXCEPT !.hasToFinish = TRUE]

\* ThreadWrapper.has_to_terminate, lines 42-51
has_to_terminate(t) == t.hasToFinish

\* For comparison: a start_process that does not look at the terminate flag
spawn_unchecked(t, spawned) ==
    IF spawned THEN [t EXCEPT !.process = "running", !.p = TRUE]
    ELSE [t EXCEPT !.process = "none", !.p = FALSE]

\* ThreadWrapper.start_process, lines 66-83; spawned: Popen did not raise
start_process(t, spawned) ==
    LET overwritten == IF t.process = "running" THEN 1 ELSE 0
    IN IF ~t.hasToFinish
       THEN IF spawned
            THEN [t EXCEPT !.process = "running", !.p = TRUE, !.lost = @ + overwritten]
            ELSE [t EXCEPT !.process = "none", !.p = FALSE, !.lost = @ + overwritten]
       ELSE [t EXCEPT !.p = FALSE]

\* For comparison: a force_stop_process that leaves the subprocess alone
leave_process(t) == t

\* ThreadWrapper.force_stop_process, lines 85-95: kill() is SIGKILL, returncode -9
force_stop_process(t) ==
    IF t.process = "running" THEN [t EXCEPT !.process = "exited", !.returncode = -9] ELSE t

\* _execute_task returns, its locals are gone: the worker is back in _working_loop
BackToLoop(t) ==
    [NewThread EXCEPT !.hasToFinish = t.hasToFinish, !.process = t.process,
                      !.returncode = t.returncode, !.lost = t.lost]

\* For comparison: every task has a timeout
AlwaysTimeout(task) == TRUE

\* _execute_task, line 359: the wait for the subprocess of the task has a timeout
HasTimeout(task) == task.duration # 0

\* For comparison: no task is skipped
SkipsNothing(ttt) == FALSE

\* _execute_task, line 351: the start time of the task has expired and it is skipped
SkipsExpired(ttt) == ttt < 0 /\ skip_expired

\* What no step of the pool changes
PoolFrame ==
    UNCHANGED <<now, confVars, ctlVars, netVars, registeredHosts, inputQueue, curr_seq_ts,
                curr_seq_num, msgHistory, stamped, engineVars, listenVars, session_start,
                session_start_abs, correction_factor, skip_expired, poolStarts>>

\* What a step of a worker thread leaves alone besides
ThreadFrame == PoolFrame /\ UNCHANGED <<poolInitialized, stopCall, retry_tasks, submitted>>

\* _working_loop, lines 221-230, and _execute_task, lines 341-354: the worker acquires
\* the semaphore, leaves the loop if it is flagged, else pops a task and looks at its
\* start time
PoolAcquire(i) ==
    /\ threads[i].st = "idle"
    /\ queueSem > 0
    /\ queueSem' = queueSem - 1
    /\ IF has_to_terminate(threads[i])
       THEN /\ threads' = [threads EXCEPT ![i].st = "finished"]
            /\ UNCHANGED poolQueue
       ELSE IF poolQueue = <<>>
       THEN UNCHANGED <<threads, poolQueue>>
       ELSE LET task == Head(poolQueue)
                ttt == time_to_task(task)
            IN /\ poolQueue' = Tail(poolQueue)
               /\ threads' = [threads EXCEPT ![i] =
                     IF ttt > 0
                     THEN [@ EXCEPT !.st = "tosleep", !.task = task, !.time_to_task = ttt,
                                    !.since = now + ((ttt + 9) \div 10)]
                     ELSE IF SkipsExpired(ttt)
                     THEN [@ EXCEPT !.st = "result", !.task = task, !.time_to_task = ttt,
                                    !.rcode = -1, !.ended = now]
                     ELSE [@ EXCEPT !.st = "spawn", !.task = task, !.time_to_task = ttt]]
    /\ UNCHANGED <<outputQueue, dummyReadable>>
    /\ ThreadFrame

\* _execute_task, lines 345-347: the worker starts waiting on the sleep condition
PoolWait(i) ==
    /\ threads[i].st = "tosleep"
    /\ threads' = [threads EXCEPT ![i].st = "sleeping"]
    /\ UNCHANGED <<poolQueue, queueSem, outputQueue, dummyReadable>>
    /\ ThreadFrame

\* _execute_task, lines 347-348: the wait on the condition times out
PoolWake(i) ==
    /\ threads[i].st = "sleeping"
    /\ now >= threads[i].since
    /\ threads' = [threads EXCEPT ![i].st = "spawn"]
    /\ UNCHANGED <<poolQueue, queueSem, outputQueue, dummyReadable>>
    /\ ThreadFrame

\* _execute_task, lines 356-363: task_start_time is read and start_process is called
PoolSpawn(i, spawned) ==
    /\ threads[i].st = "spawn"
    /\ threads' = [threads EXCEPT ![i] =
                     [start_process(@, spawned) EXCEPT !.st = "started", !.since = now]]
    /\ UNCHANGED <<poolQueue, queueSem, outputQueue, dummyReadable>>
    /\ ThreadFrame

\* _execute_task, lines 364-375: what start_process returned is looked at and the
\* peers are told that the task has started
PoolStarted(i) ==
    /\ threads[i].st = "started"
    /\ IF ~threads[i].p /\ ~has_to_terminate(threads[i])
       THEN /\ threads' = [threads EXCEPT ![i].st = "result", ![i].rcode = -1,
                                          ![i].ended = now]
            /\ UNCHANGED <<outputQueue, dummyReadable>>
       ELSE IF ~threads[i].p
       THEN /\ threads' = [threads EXCEPT ![i] = BackToLoop(@)]
            /\ UNCHANGED <<outputQueue, dummyReadable>>
       ELSE /\ threads' = [threads EXCEPT ![i].st = "running"]
            /\ outputQueue' =
                   broadcast_msg(outputQueue, status_start(threads[i].task, threads[i].since))
            /\ dummyReadable' = TRUE
    /\ UNCHANGED <<poolQueue, queueSem>>
    /\ ThreadFrame

\* The subprocess of a worker exits by itself with rcode
PoolProcExit(i, rcode) ==
    /\ threads[i].process = "running"
    /\ threads' = [threads EXCEPT ![i].process = "exited", ![i].returncode = rcode]
    /\ UNCHANGED <<poolQueue, queueSem, outputQueue, dummyReadable>>
    /\ ThreadFrame

\* _execute_task, lines 379-398: p.wait returns because the subprocess has exited
PoolWaited(i) ==
    /\ threads[i].st = "running"
    /\ threads[i].process = "exited"
    /\ LET task_duration == threads[i].task.duration
           task_timeout == task_duration - (now - threads[i].since)
       IN threads' = [threads EXCEPT ![i] =
             [@ EXCEPT !.ended = now, !.rcode = threads[i].returncode,
                       !.st = IF /\ HasTimeout(threads[i].task)
                                 /\ retry_tasks /\ task_timeout > 0
                              THEN "respawn" ELSE "result"]]
    /\ UNCHANGED <<poolQueue, queueSem, outputQueue, dummyReadable>>
    /\ ThreadFrame

\* _execute_task, line 396 and back to line 387: the task is spawned again; waiting
\* on the None that start_process returned raises AttributeError, which nothing
\* catches: the thread dies
PoolRespawn(i, spawned) ==
    /\ threads[i].st = "respawn"
    /\ LET t == start_process(threads[i], spawned)
       IN threads' = [threads EXCEPT ![i] =
                        [t EXCEPT !.st = IF t.p THEN "running" ELSE "dead"]]
    /\ UNCHANGED <<poolQueue, queueSem, outputQueue, dummyReadable>>
    /\ ThreadFrame

\* _execute_task, lines 387 and 400: p.wait raises TimeoutExpired, the subprocess
\* is still running when the duration has elapsed
PoolTimeout(i) ==
    /\ threads[i].st = "running"
    /\ threads[i].process = "running"
    /\ HasTimeout(threads[i].task)
    /\ now - threads[i].since >= threads[i].task.duration
    /\ threads' = [threads EXCEPT ![i].st = "killing"]
    /\ UNCHANGED <<poolQueue, queueSem, outputQueue, dummyReadable>>
    /\ ThreadFrame

\* _execute_task, lines 401-403: the subprocess is killed, the return code is 0
PoolKill(i) ==
    /\ threads[i].st = "killing"
    /\ threads' = [threads EXCEPT ![i] =
                     [force_stop_process(@) EXCEPT !.st = "result", !.rcode = 0,
                                                   !.ended = now]]
    /\ UNCHANGED <<poolQueue, queueSem, outputQueue, dummyReadable>>
    /\ ThreadFrame

\* _process_result, lines 423-436, and the return to _working_loop
PoolResult(i) ==
    /\ threads[i].st = "result"
    /\ IF ~has_to_terminate(threads[i])
       THEN /\ outputQueue' = broadcast_msg(outputQueue,
                   ResultMsg(threads[i].task, threads[i].ended, threads[i].rcode))
            /\ dummyReadable' = TRUE
       ELSE UNCHANGED <<outputQueue, dummyReadable>>
    /\ threads' = [threads EXCEPT ![i] = BackToLoop(@)]
    /\ UNCHANGED <<poolQueue, queueSem>>
    /\ ThreadFrame

\* The tasks submitted to the pool: due now or at 1, without or with a duration
PoolTasks(seqNum) == {Task(seqNum, ts, dur) : ts \in {0, 1}, dur \in {0, 1}}

\* _check_threads, lines 198-211: a thread that died is replaced by a new one
check_threads(ths) == [i \in DOMAIN ths |-> IF ths[i].st = "dead" THEN NewThread ELSE ths[i]]

\* submit_task, lines 171-185, called by the thread that owns the pool; the pool is
\* driven directly, no frame carries the task
PoolSubmit(task) ==
    /\ stopCall.pc = "none"
    /\ poolInitialized
    /\ Len(submitted) < PoolTasksMax
    /\ threads' = check_threads(threads)
    /\ poolQueue' = Append(poolQueue, task)
    /\ queueSem' = queueSem + 1
    /\ submitted' = Append(submitted, <<None, None, command_start(task)>>)
    /\ UNCHANGED <<outputQueue, dummyReadable, poolInitialized, stopCall, retry_tasks>>
    /\ PoolFrame

\* Thread.join returns for a thread that has ended
Joinable(t) == t.st \in {"finished", "dead"}

\* What a step of stop leaves alone besides
StopFrame == PoolFrame /\ UNCHANGED <<poolQueue, submitted, outputQueue, dummyReadable>>

\* InjectionThreadPool.stop(kill_abruptly=True), line 310: the call is made
StopBegin ==
    /\ stopCall.pc = "none"
    /\ poolInitialized
    /\ stopCall' = [stopCall EXCEPT !.pc = "terminate", !.i = 1]
    /\ UNCHANGED <<threads, queueSem, poolInitialized, retry_tasks>>
    /\ StopFrame

\* stop, lines 312-313: the threads are flagged one after the other
StopTerminate ==
    /\ stopCall.pc = "terminate"
    /\ threads' = [threads EXCEPT ![stopCall.i] = terminate(@)]
    /\ stopCall' = IF stopCall.i < Len(threads)
                   THEN [stopCall EXCEPT !.i = @ + 1]
                   ELSE [stopCall EXCEPT !.pc = "release", !.i = 1]
    /\ UNCHANGED <<queueSem, poolInitialized, retry_tasks>>
    /\ StopFrame

\* stop, lines 315-316: one release of the semaphore for each thread
StopRelease ==
    /\ stopCall.pc = "release"
    /\ queueSem' = queueSem + 1
    /\ stopCall' = IF stopCall.i < Len(threads)
                   THEN [stopCall EXCEPT !.i = @ + 1]
                   ELSE [stopCall EXCEPT !.pc = "notify", !.i = 1]
    /\ UNCHANGED <<threads, poolInitialized, retry_tasks>>
    /\ StopFrame

\* stop, lines 319-321: the threads waiting on the sleep condition are woken
StopNotify ==
    /\ stopCall.pc = "notify"
    /\ threads' = [i \in DOMAIN threads |->
                     IF threads[i].st = "sleeping"
                     THEN [threads[i] EXCEPT !.st = "spawn"] ELSE threads[i]]
    /\ stopCall' = [stopCall EXCEPT !.pc = "noretry"]
    /\ UNCHANGED <<queueSem, poolInitialized, retry_tasks>>
    /\ StopFrame

\* stop, lines 323-324: kill_abruptly switches the retries off
StopNoRetry ==
    /\ stopCall.pc = "noretry"
    /\ retry_tasks' = FALSE
    /\ stopCall' = [stopCall EXCEPT !.pc = "kill", !.i = 1]
    /\ UNCHANGED <<threads, queueSem, poolInitialized>>
    /\ StopFrame

\* stop, lines 325-326: the subprocess of each thread is killed
StopKill ==
    /\ stopCall.pc = "kill"
    /\ threads' = [threads EXCEPT ![stopCall.i] = force_stop_process(@)]
    /\ stopCall' = IF stopCall.i < Len(threads)
                   THEN [stopCall EXCEPT !.i = @ + 1]
                   ELSE [stopCall EXCEPT !.pc = "join", !.i = 1]
    /\ UNCHANGED <<queueSem, poolInitialized, retry_tasks>>
    /\ StopFrame

\* stop, lines 327-329: the threads are joined one after the other
StopJoin ==
    /\ stopCall.pc = "join"
    /\ Joinable(threads[stopCall.i])
    /\ stopCall' = IF stopCall.i < Len(threads)
                   THEN [stopCall EXCEPT !.i = @ + 1]
                   ELSE [stopCall EXCEPT !.pc = "clear", !.i = 1]
    /\ UNCHANGED <<threads, queueSem, poolInitialized, retry_tasks>>
    /\ StopFrame

\* stop, lines 330-332: the pool forgets its threads and stop returns; orphans
\* records the threads whose subprocess is running at that moment
StopReturn ==
    /\ stopCall.pc = "clear"
    /\ poolInitialized' = FALSE
    /\ threads' = <<>>
    /\ stopCall' = [pc |-> "done", i |-> 0,
                    orphans |-> {i \in DOMAIN threads : threads[i].process = "running"}]
    /\ UNCHANGED <<queueSem, retry_tasks>>
    /\ StopFrame

\* The pool after start(), lines 136-149, with either setting of its two flags
InitPool ==
    /\ now = 0
    /\ reSendMsgs = FALSE
    /\ inputQueue = <<>>
    /\ outputQueue = <<>>
    /\ curr_seq_ts = 0
    /\ curr_seq_num = 0
    /\ msgHistory = <<>>
    /\ dummyReadable = FALSE
    /\ stamped = <<>>
    /\ master = None
    /\ session_timestamp = NoSession
    /\ engineUp = TRUE
    /\ handled = None
    /\ poolInitialized = TRUE
    /\ poolQueue = <<>>
    /\ queueSem = 0
    /\ stopCall = NoStop
    /\ threads = [i \in 1..PoolWorkers |-> NewThread]
    /\ session_start = 0
    /\ session_start_abs = 0
    /\ correction_factor = 0
    /\ skip_expired \in BOOLEAN
    /\ retry_tasks \in BOOLEAN
    /\ poolStarts = 0
    /\ submitted = <<>>
    /\ seq_num_lim = SeqNumLim
    /\ historyLen = HistoryLen
    /\ registeredHosts = {}
    /\ client = NewClient
    /\ injector = NewInjector
    /\ peerSock = [a \in Addrs |-> "new"]
    /\ sends = 0
    /\ ctlAddr = None

ThreadNext ==
    \/ \E i \in DOMAIN threads : PoolAcquire(i)
    \/ \E i \in DOMAIN threads : PoolWait(i)
    \/ \E i \in DOMAIN threads : PoolWake(i)
    \/ \E i \in DOMAIN threads, spawned \in BOOLEAN : PoolSpawn(i, spawned)
    \/ \E i \in DOMAIN threads : PoolStarted(i)
    \/ \E i \in DOMAIN threads, rcode \in {0, 1} : PoolProcExit(i, rcode)
    \/ \E i \in DOMAIN threads : PoolWaited(i)
    \/ \E i \in DOMAIN threads, spawned \in BOOLEAN : PoolRespawn(i, spawned)
    \/ \E i \in DOMAIN threads : PoolTimeout(i)
    \/ \E i \in DOMAIN threads : PoolKill(i)
    \/ \E i \in DOMAIN threads : PoolResult(i)

\* The pool in service: tasks are submitted and the workers run them
NextPool ==
    \/ Tick
    \/ \E task \in PoolTasks(20 + Len(submitted)) : PoolSubmit(task)
    \/ ThreadNext

SpecPool == InitPool /\ [][NextPool]_vars

StopNext ==
    \/ StopBegin
    \/ StopTerminate
    \/ StopRelease
    \/ StopNotify
    \/ StopNoRetry
    \/ StopKill
    \/ StopJoin
    \/ StopReturn

\* The pool in service until, at any moment, stop(kill_abruptly=True) is called
NextStop ==
    \/ NextPool
    \/ StopNext

SpecStop == InitPool /\ [][NextStop]_vars

-----------------------------------------------------------------------------
(* Session master *)

\* The commands by which an address shows itself to be the master
MasterProbes ==
    {command_start(t) : t \in StartTasks}
    \cup {command_terminate, command_session(1, TRUE)}
    \cup {command_set_time(t) : t \in SetTimes}
    \cup {command_correct_time(t) : t \in CorrectTimes}

\* The addresses that the engine treats as the session master: those from which it
\* would apply a command that only the master may give
Masters ==
    {a \in Addrs : \E m \in MasterProbes :
        \/ StartGuard(a, m)
        \/ TerminateGuard(a, m)
        \/ EndSessionGuard(a, m)
        \/ SetTimeGuard(a, m)
        \/ CorrectTimeGuard(a, m)}

\* C1: in every reachable state of the engine, whatever the peers sent and however
\* they connected and disconnected, at most one address is treated as the session
\* master, and it is the recorded one
C1_AtMostOneMaster ==
    /\ Cardinality(Masters) <= 1
    /\ master = None \/ master \in Addrs
    /\ Masters = {a \in Addrs : a = master}

\* A session is open while a second peer is connected and the first master is gone
C1_Witness ==
    /\ master # None
    /\ Cardinality(registeredHosts \ {master}) = 1
    /\ poolStarts >= 2

-----------------------------------------------------------------------------
(* Commands and the master *)

\* The step is the engine's main thread processing the message at the head of its queue
ListenStep == engineUp /\ inputQueue # <<>> /\ inputQueue' = Tail(inputQueue)

HeadAddr == Head(inputQueue)[1]
HeadMsg == Head(inputQueue)[2]

\* The commands that only the master may give, session commands aside
MasterOnlyTypes ==
    {COMMAND_START, COMMAND_SET_TIME, COMMAND_CORRECT_TIME, COMMAND_TERMINATE}

\* The pool's virtual clock
PoolClock == <<session_start, session_start_abs, correction_factor>>

\* C2: a task is put on the pool's queue only by the processing of a START command
\* whose sender is the master at that moment, and a START, SET-TIME, CORRECT-TIME or
\* TERMINATE of a peer that is not the master changes neither the master, the session
\* timestamp, the pool's virtual clock nor the pool's queue (nor stops the engine)
C2_OnlyMasterCommands ==
    [][ /\ Len(poolQueue') > Len(poolQueue) =>
            /\ ListenStep
            /\ HeadMsg.type = COMMAND_START
            /\ master # None
            /\ HeadAddr = master
            /\ poolQueue' = Append(poolQueue, msg_to_task(HeadMsg))
        /\ (ListenStep /\ HeadMsg.type \in MasterOnlyTypes /\ HeadAddr # master) =>
            UNCHANGED <<master, session_timestamp, PoolClock, poolQueue, engineUp,
                        submitted>>
      ]_vars

\* The START of a peer that is not the master has just been processed, while a session
\* is open and the master's own START has been submitted
C2_Witness ==
    /\ handled # None
    /\ handled[2].type = COMMAND_START
    /\ master # None
    /\ handled[1] # master
    /\ Len(submitted) = 1
    /\ submitted[1][1] = master

-----------------------------------------------------------------------------
(* Stamps of the outbound flush *)

\* C5: of any two frames stamped by the flush of the entity, the earlier one carries
\* the lexicographically smaller (sessionTs, seqNum) pair, also when seqNum has wrapped
\* around its modulus in between and sessionTs was refreshed from the wall clock
C5_StampsIncrease ==
    \A i, j \in DOMAIN stamped : i < j => LexLess(stamped[i], stamped[j])

\* seqNum has wrapped: a frame stamped after the wrap follows the frames before it
C5_Witness ==
    \E i \in DOMAIN stamped :
        /\ i > SeqNumLim
        /\ stamped[i][2] = 0
        /\ stamped[i - 1][2] = SeqNumLim - 1
        /\ stamped[i][1] = now

-----------------------------------------------------------------------------
(* Duplicate START commands *)

\* The (sender, sessionTs, seqNum) of the i-th frame whose task was submitted
SubmittedStamp(i) == <<submitted[i][1], submitted[i][2]>>

\* C6: with replay enabled, a START command carrying a (sessionTs, seqNum) that the
\* engine has already applied is discarded: no two submissions to the pool come from
\* frames of the same sender with the same stamp
C6_DuplicateStartDiscarded ==
    reSendMsgs =>
        \A i, j \in DOMAIN submitted : i # j => SubmittedStamp(i) # SubmittedStamp(j)

-----------------------------------------------------------------------------
(* START-SESSION *)

\* The step is the processing of a START-SESSION
SessionStep == ListenStep /\ HeadMsg.type = COMMAND_START_SESSION

\* What the pool holds: its threads, its queue and its lifecycle
PoolState == <<threads, poolQueue, poolInitialized, poolStarts, retry_tasks, PoolClock>>

\* The step stops the pool abruptly and starts it again
PoolRestarted ==
    /\ poolStarts' = poolStarts + 1
    /\ threads' = FreshThreads
    /\ poolInitialized'
    /\ ~retry_tasks'

\* The step sends one reply, msg, to the sender of the message it processes
Replied(msg) == outputQueue' = Append(outputQueue, <<HeadAddr, msg>>)

\* C8: a START-SESSION that is accepted and does not resume the session in course
\* (there is no master, or its sender is the master and its sessionTs is not the stored
\* one) stops and restarts the pool, records its sender and its sessionTs as the
\* session and is answered with ack_yes carrying error = -1
C8_NewSessionResetsPool ==
    [][ (/\ SessionStep
         /\ \/ master = None
            \/ HeadAddr = master /\ HeadMsg.timestamp # session_timestamp)
        => /\ PoolRestarted
           /\ master' = HeadAddr
           /\ session_timestamp' = HeadMsg.timestamp
           /\ Replied(ack(now, TRUE, <<-1>>))
      ]_vars

\* With replay enabled, the only peer that ever connected has opened a session and
\* then sent a START-SESSION with another sessionTs: the pool was restarted twice
C8_Witness ==
    /\ reSendMsgs
    /\ handled # None
    /\ handled[2].type = COMMAND_START_SESSION
    /\ handled[1] = master
    /\ handled[2].timestamp = session_timestamp
    /\ sends = 2
    /\ poolStarts = 2
    /\ \A a \in Addrs \ {master} : peerSock[a] = "new"

\* C9 as the specification states it: a START-SESSION of the master carrying the stored
\* sessionTs leaves the pool alone, keeps the session and is answered with an ack_yes
\* without an error field
C9_ResumeKeepsPool ==
    [][ (SessionStep /\ HeadAddr = master /\ HeadMsg.timestamp = session_timestamp)
        => /\ UNCHANGED <<PoolState, master, session_timestamp>>
           /\ Replied(ack(now, TRUE, None))
      ]_vars

\* C9, amended: it holds when replay (RECOVER_AFTER_DISCONNECT) is enabled
C9_ResumeKeepsPoolWithReplay ==
    [][ (SessionStep /\ reSendMsgs /\ HeadAddr = master
         /\ HeadMsg.timestamp = session_timestamp)
        => /\ UNCHANGED <<PoolState, master, session_timestamp>>
           /\ Replied(ack(now, TRUE, None))
      ]_vars

\* With replay enabled, the master has repeated its START-SESSION while the task of its
\* START command was running: the pool was started once and the task still runs
C9_Witness ==
    /\ reSendMsgs
    /\ handled # None
    /\ handled[2].type = COMMAND_START_SESSION
    /\ handled[1] = master
    /\ handled[2].timestamp = session_timestamp
    /\ poolStarts = 1
    /\ Len(submitted) = 1
    /\ \E i \in Slots : threads[i].st = "running"

\* C10: while a master is active (recorded, and registered with the server), the
\* START-SESSION of another address is answered with ack_no and changes neither the
\* master, the stored sessionTs nor the pool
C10_OtherSessionRejected ==
    [][ (/\ SessionStep
         /\ master # None
         /\ master \in registeredHosts
         /\ HeadAddr # master)
        => /\ UNCHANGED <<PoolState, master, session_timestamp>>
           /\ Replied(ack(now, FALSE, None))
      ]_vars

\* The START-SESSION of a second peer has been turned down: the master is still the
\* first peer, still connected, and the pool was started once
C10_Witness ==
    /\ handled # None
    /\ handled[2].type = COMMAND_START_SESSION
    /\ master # None
    /\ master \in registeredHosts
    /\ handled[1] # master
    /\ handled[1] \in registeredHosts
    /\ poolStarts = 1
    /\ outputQueue # <<>>
    /\ outputQueue[Len(outputQueue)] = <<handled[1], ack(now, FALSE, None)>>

-----------------------------------------------------------------------------
(* The end of the injection loop *)

WorkSeqNums == {Workload[k].seqNum : k \in DOMAIN Workload}

\* The execution log the controller writes for the engine
Log == IF EngineAddr \in DOMAIN injector.writers THEN injector.writers[EngineAddr] ELSE <<>>

\* The number of STATUS_END and STATUS_ERR entries of the log that carry seqNum s
TerminalCount(s) ==
    Cardinality({k \in DOMAIN Log : /\ Log[k].type \in {STATUS_END, STATUS_ERR}
                                    /\ Log[k].seqNum = s})

\* The pending set the controller keeps for the engine
Pending ==
    IF EngineAddr \in DOMAIN injector.pendingTasks
    THEN injector.pendingTasks[EngineAddr]
    ELSE {}

\* The step by which _inject leaves its main loop and closes the session
LoopExitStep == injector.phase = "inject" /\ injector'.phase = "end"

\* The whole workload was read and broadcast, or as much of it as max_tasks allows
FullyDispatched ==
    \/ injector.read_tasks = Len(Workload)
    \/ injector.max_tasks # None /\ injector.read_tasks >= injector.max_tasks[1]

\* s left the pending set when a STATUS_END or STATUS_ERR carrying it was processed
RemovedByStatus(s) == s \notin Pending /\ s \notin injector.cleared /\ TerminalCount(s) >= 1

-----------------------------------------------------------------------------
(* Every task ends *)

\* The controller has left the injection loop
CtlDown == injector.phase \in {"end", "done", "failed"}

\* Somebody waits for the clock: a worker for the start time or for the duration of
\* its task, the controller for the time at which its next task is due, the client for
\* its next dial. The clock stops at MaxTime, so such a wait may last for ever here
\* though it ends in the program
ClockAwaited ==
    \/ \E i \in Slots : threads[i].st # "idle"
    \/ injector.phase = "inject" /\ ~injector.endReached
    \/ client.dangling # None

\* The START carrying s was broadcast and no STATUS_END or STATUS_ERR carrying s has
\* arrived, though the connection was not finalized and the controller is injecting
Unanswered(s) ==
    /\ s \in Dispatched(injector)
    /\ TerminalCount(s) = 0
    /\ EngineAddr \notin injector.popped
    /\ ~CtlDown

RestoredWithReplay == reSendMsgs /\ client.outage # {} /\ ctlAddr = ConnectOrder[2]

\* The pending set of the engine is empty and the execution log holds exactly one
\* terminal entry for every seqNum broadcast
AllCompleted == Pending = {} /\ \A s \in Dispatched(injector) : TerminalCount(s) = 1

-----------------------------------------------------------------------------
(* Takeover and end of a session *)

\* What a takeover with reset does: the pool is restarted, the sender becomes the only
\* address whose commands are admitted, its sessionTs is stored, the reply is ack_yes
\* with error = -1
TakenOverWithReset ==
    /\ PoolRestarted
    /\ master' = HeadAddr
    /\ session_timestamp' = HeadMsg.timestamp
    /\ Replied(ack(now, TRUE, <<-1>>))
    /\ Masters' = {HeadAddr}

\* C11 as stated: while A is the master with sessionTs T1, the START-SESSION of another
\* peer B with another sessionTs T2 restarts the pool, makes B the master with T2 and
\* is answered with ack_yes carrying error = -1, and A's commands are no longer admitted
C11_TakeoverResets ==
    [][ (/\ SessionStep
         /\ master # None
         /\ HeadAddr # master
         /\ HeadMsg.timestamp # session_timestamp)
        => TakenOverWithReset
      ]_vars

\* C11, amended: it holds when the connection of A is no longer registered with the
\* server (and T2 differs from T1, or replay is disabled)
C11_TakeoverOfLostMasterResets ==
    [][ (/\ SessionStep
         /\ master # None
         /\ master \notin registeredHosts
         /\ HeadAddr # master
         /\ HeadMsg.timestamp # session_timestamp \/ ~reSendMsgs)
        => TakenOverWithReset
      ]_vars

\* The first master had a task submitted and lost its connection; the START-SESSION of
\* a second peer has just been accepted with a second start of the pool
C11_Witness ==
    /\ handled # None
    /\ handled[2].type = COMMAND_START_SESSION
    /\ handled[1] = master
    /\ session_timestamp = handled[2].timestamp
    /\ poolStarts = 2
    /\ Len(submitted) = 1
    /\ submitted[1][1] # master
    /\ submitted[1][1] \notin registeredHosts
    /\ outputQueue # <<>>
    /\ outputQueue[Len(outputQueue)] = <<master, ack(now, TRUE, <<-1>>)>>

\* C12: the END-SESSION of the master clears the session (no master, no session
\* timestamp), leaves the pool alone and is answered with ack_yes; and while there is
\* no master, which lasts until a START-SESSION is accepted, the START, SET-TIME,
\* CORRECT-TIME or TERMINATE of any peer changes neither the session, the pool's
\* clock, its queue nor its threads, and does not stop the engine
C12_EndSessionClearsSession ==
    [][ /\ (ListenStep /\ EndSessionGuard(HeadAddr, HeadMsg)) =>
            /\ master' = None
            /\ session_timestamp' = NoSession
            /\ Masters' = {}
            /\ Replied(ack(now, TRUE, None))
            /\ UNCHANGED PoolState
        /\ (ListenStep /\ master = None /\ HeadMsg.type \in MasterOnlyTypes) =>
            UNCHANGED <<master, session_timestamp, PoolState, engineUp, submitted,
                        outputQueue>>
        /\ (master = None /\ master' # None) =>
            /\ SessionStep
            /\ master' = HeadAddr
      ]_vars

\* The only peer has opened a session and ended it; its START, sent afterwards, has
\* just been processed and nothing was submitted to the pool
C12_Witness ==
    /\ handled # None
    /\ handled[2].type = COMMAND_START
    /\ master = None
    /\ session_timestamp = NoSession
    /\ poolStarts = 1
    /\ submitted = <<>>
    /\ poolQueue = <<>>
    /\ sends = 3
    /\ \A a \in Addrs \ {handled[1]} : peerSock[a] = "new"

-----------------------------------------------------------------------------
(* The worker pool: shutdown *)

\* The broadcasts of the pool about the task seqNum, in order
Broadcasts(seqNum) ==
    SelectSeq(outputQueue, LAMBDA e : "seqNum" \in DOMAIN e[2] /\ e[2].seqNum = seqNum)

BroadcastTypes(seqNum) == [k \in DOMAIN Broadcasts(seqNum) |-> Broadcasts(seqNum)[k][2].type]

\* C13: once stop(kill_abruptly=True) has returned, no subprocess spawned by a worker
\* of the pool is running, whatever the workers were doing while stop ran (spawning,
\* waiting for a subprocess, spawning a task again, handling a timeout).
C13_NoChildAfterStop ==
    stopCall.pc = "done" => stopCall.orphans = {}

\* stop has returned after it found both workers with a started task that has not
\* ended, one of them with a duration and one without
C13_Witness ==
    /\ stopCall.pc = "done"
    /\ BroadcastTypes(20) = <<STATUS_START>>
    /\ BroadcastTypes(21) = <<STATUS_START>>
    /\ submitted[1][3].duration = 1
    /\ submitted[2][3].duration = 0

-----------------------------------------------------------------------------
(* The worker pool: the run of one task *)

\* The worker holds a task whose start time had passed when it was taken off the queue
Expired(t) == t.task # None /\ t.time_to_task < 0

\* The worker has not called start_process for the task it holds
NotSpawned(t) == t.st \in {"tosleep", "sleeping", "spawn", "result"} /\ ~t.p

\* The step broadcasts msg
Broadcast(msg) == outputQueue' = Append(outputQueue, <<BroadcastAddr, msg>>)

\* C14: a task taken off the queue after its scheduled start is run if and only if
\* skip_expired is unset. With skip_expired the worker spawns nothing, sends no
\* STATUS_START and broadcasts STATUS_ERR with error -1; without it the worker goes
\* to the spawn at once, without sleeping.
C14_ExpiredRunIffNotSkipped ==
    /\ [](\A i \in DOMAIN threads : Expired(threads[i]) =>
             IF skip_expired
             THEN /\ threads[i].st = "result" /\ threads[i].rcode = -1
                  /\ NotSpawned(threads[i])
                  /\ Broadcasts(threads[i].task.seqNum) = <<>>
             ELSE threads[i].st \notin {"tosleep", "sleeping"})
    /\ [][\A i \in DOMAIN threads :
             /\ (~Expired(threads[i]) /\ Expired(threads'[i])) =>
                    threads'[i].st = IF skip_expired THEN "result" ELSE "spawn"
             /\ (Expired(threads[i]) /\ threads[i].st = "spawn" /\ threads'[i] # threads[i]) =>
                    /\ threads'[i] = [start_process(threads[i], threads'[i].p)
                                         EXCEPT !.st = "started", !.since = now]
                    /\ threads[i].since = 0
             /\ (Expired(threads[i]) /\ skip_expired /\ threads'[i] # threads[i]) =>
                    /\ Broadcast(status_error(threads[i].task, threads[i].ended, -1))
                    /\ threads'[i].st = "idle" ]_vars

\* A task that was due at 0 was taken off the queue at 1, skip_expired being unset,
\* and its subprocess runs
C14_Witness ==
    /\ ~skip_expired
    /\ \E i \in DOMAIN threads :
          /\ Expired(threads[i])
          /\ threads[i].st = "running" /\ threads[i].process = "running"
          /\ threads[i].task.timestamp = 0 /\ threads[i].since = 1
          /\ Broadcasts(threads[i].task.seqNum) =
                << <<BroadcastAddr, status_start(threads[i].task, 1)>> >>

\* The subprocess of the worker is running although the duration of its task is over
Overdue(t) ==
    /\ t.st = "running" /\ t.process = "running"
    /\ t.task.duration > 0 /\ now - t.since >= t.task.duration

\* C15: when the subprocess of a task with a duration is still running after the
\* duration has elapsed, the worker kills it and broadcasts status_end, not
\* status_err: the timeout is a normal end with return code 0.
C15_TimeoutEndsNormally ==
    /\ [](\A i \in DOMAIN threads : threads[i].st = "killing" =>
             /\ threads[i].task.duration > 0
             /\ now - threads[i].since >= threads[i].task.duration
             /\ BroadcastTypes(threads[i].task.seqNum) = <<STATUS_START>>)
    /\ [][\A i \in DOMAIN threads :
             /\ (Overdue(threads[i]) /\ threads'[i].st # "running") =>
                    threads'[i] = [threads[i] EXCEPT !.st = "killing"]
             /\ (threads[i].st = "killing" /\ threads'[i].st # "killing") =>
                    /\ threads'[i].st = "result" /\ threads'[i].rcode = 0
                    /\ threads'[i].process = "exited"
             /\ (/\ threads[i].st = "result" /\ threads[i].rcode = 0
                 /\ threads'[i] # threads[i]) =>
                    /\ Broadcast(status_end(threads[i].task, threads[i].ended))
                    /\ threads'[i].st = "idle" ]_vars

\* The task of duration 1 started at 0, its subprocess was killed at 1 and the peers
\* were told that it had ended
C15_Witness ==
    /\ \E i \in DOMAIN threads : threads[i].process = "exited" /\ threads[i].returncode = -9
    /\ submitted[1][3].duration = 1
    /\ Broadcasts(20) = << <<BroadcastAddr, status_start(msg_to_task(submitted[1][3]), 0)>>,
                           <<BroadcastAddr, status_end(msg_to_task(submitted[1][3]), 1)>> >>

\* C16: on an engine built with retry_tasks that serves an accepted session, a task
\* with a duration whose subprocess exits with code 0 before the duration is over is
\* spawned again, until the duration is over, and one status_end is broadcast for
\* it: no status_end is broadcast for a task whose duration is not over.
C16_ShortExitRespawned ==
    [][\A i \in Slots :
          (/\ master # None
           /\ threads[i].st = "running"
           /\ threads[i].task.duration > 0
           /\ now - threads[i].since < threads[i].task.duration) =>
              ~Broadcast(status_end(threads[i].task, now)) ]_vars

\* p.wait has returned or is about to: the subprocess of the worker has exited by
\* itself before the duration of its task was over
ExitedEarly(t) ==
    /\ t.st = "running" /\ t.process = "exited"
    /\ t.task.duration > 0 /\ now - t.since < t.task.duration

\* C17: a subprocess that exits with a non-zero code before the duration of its task
\* is over is spawned again only if retry_tasks and retry_on_error are both set;
\* otherwise the worker broadcasts STATUS_ERR with the exit code. The pool has no
\* retry_on_error to set: the subprocess is not spawned again.
C17_ErrorExitNotRespawned ==
    [][\A i \in DOMAIN threads :
          /\ (/\ ExitedEarly(threads[i]) /\ threads[i].returncode # 0
              /\ threads'[i] # threads[i]) =>
                 /\ threads'[i].st = "result"
                 /\ threads'[i].rcode = threads[i].returncode
          /\ (/\ threads[i].st = "result" /\ threads[i].p /\ threads[i].rcode # 0
              /\ threads'[i] # threads[i]) =>
                 Broadcast(status_error(threads[i].task, threads[i].ended, threads[i].rcode))
    ]_vars

\* C18: when the spawn of a task's subprocess fails on a worker that is not flagged
\* for termination, be it the first spawn or a later one, the worker broadcasts
\* STATUS_ERR with error -1, sends no STATUS_START for that spawn and does not try
\* again, whatever retry_tasks; the worker stays available for the next task.
C18_SpawnFailureReported ==
    /\ [](\A i \in DOMAIN threads : threads[i].st # "dead")
    /\ [][\A i \in DOMAIN threads :
             /\ (/\ threads[i].st \in {"started", "respawn"}
                 /\ ~has_to_terminate(threads[i])
                 /\ threads'[i] # threads[i] /\ ~threads'[i].p) =>
                    /\ threads'[i].st = "result" /\ threads'[i].rcode = -1
                    /\ UNCHANGED outputQueue
             /\ (/\ threads[i].st = "result" /\ threads[i].rcode = -1
                 /\ threads'[i] # threads[i]) =>
                    /\ Broadcast(status_error(threads[i].task, threads[i].ended, -1))
                    /\ threads'[i].st = "idle" ]_vars

\* C19: the subprocess of a task of duration 0 is never killed for a timeout: the
\* worker waits for it to exit, however long it takes, and reports its exit code,
\* STATUS_END for 0 and STATUS_ERR otherwise.
C19_NoTimeoutWithoutDuration ==
    /\ [](\A i \in DOMAIN threads : (threads[i].task # None /\ threads[i].task.duration = 0) =>
             /\ threads[i].st \notin {"killing", "respawn", "dead"}
             /\ threads[i].st = "running" => threads[i].process = "running"
                                              \/ threads[i].returncode \in {0, 1})
    /\ [][\A i \in DOMAIN threads :
             (threads[i].task # None /\ threads[i].task.duration = 0) =>
                /\ (threads[i].st = "running" /\ threads'[i].st # "running") =>
                      /\ threads[i].process = "exited"
                      /\ threads'[i].st = "result"
                      /\ threads'[i].rcode = threads[i].returncode
                /\ (threads[i].st = "result" /\ threads[i].p /\ threads'[i] # threads[i]) =>
                      Broadcast(IF threads[i].returncode = 0
                                THEN status_end(threads[i].task, threads[i].ended)
                                ELSE status_error(threads[i].task, threads[i].ended,
                                                  threads[i].returncode)) ]_vars

\* A task of duration 0 started at 0 and exited at 1 with code 1, longer than the
\* duration of any other task: the peers were told of the error with its code
C19_Witness ==
    /\ submitted # <<>> /\ submitted[1][3].duration = 0
    /\ Broadcasts(20) =
          << <<BroadcastAddr, status_start(msg_to_task(submitted[1][3]), 0)>>,
             <<BroadcastAddr, status_error(msg_to_task(submitted[1][3]), 1, 1)>> >>

-----------------------------------------------------------------------------
(* The execution log of the controller *)

\* The messages of q that the engine sent and that are no acks, in order
EngineMessages(q) ==
    LET kept == SelectSeq(q, LAMBDA e : /\ e[1] = EngineAddr
                                        /\ ~is_status_message(e[2])
                                        /\ e[2].type \notin {ACK_YES, ACK_NO})
    IN [k \in DOMAIN kept |-> kept[k][2]]

\* The entries of the engine's execution log that are messages of the engine
LoggedMessages(inj) ==
    IF EngineAddr \in DOMAIN inj.writers
    THEN SelectSeq(inj.writers[EngineAddr],
                   LAMBDA e : e.type \in {STATUS_START, STATUS_END, STATUS_ERR, STATUS_GREET})
    ELSE <<>>

\* What the step pops from the inbound queue of the controller
Popped == SubSeq(client.inputQueue, 1, Len(client.inputQueue) - Len(client'.inputQueue))

-----------------------------------------------------------------------------
(* The execution log of a session without disconnections *)

\* The connection the controller opened first was never lost
NoDisconnection == ctlAddr = ConnectOrder[1] /\ client.sock = "open"

\* The positions of the log that hold an entry of one of the types for task s
EntriesOf(types, s) ==
    {k \in DOMAIN Log : Log[k].type \in types /\ Log[k].seqNum = s}

\* The log holds the result of a subprocess of task s: STATUS_END, or a STATUS_ERR
\* whose code is no -1 (the code of a task that was skipped or could not be spawned)
Executed(s) ==
    \E k \in EntriesOf({STATUS_END, STATUS_ERR}, s) :
        Log[k].type = STATUS_ERR => Log[k].error # -1

-----------------------------------------------------------------------------
(* The replay of the history *)

\* The entries of the history that were broadcasts and whose pair is greater than
\* start_seq, in history order, each as an item addressed to addr
BroadcastsAfter(start_seq, addr) ==
    LET sel == SelectSeq(msgHistory,
                         LAMBDA e : /\ e[2] = BroadcastAddr
                                    /\ \/ e[1][1] > start_seq[1]
                                       \/ e[1][1] = start_seq[1] /\ e[1][2] > start_seq[2])
    IN [k \in DOMAIN sel |-> <<addr, sel[k][3]>>]

\* C22: when a replay-enabled server reads a forwarding request carrying the pair S
\* from a peer, it appends to its outbound queue, addressed to that peer and in history
\* order, exactly the history entries that were broadcasts and whose (sessionTs,
\* seqNum) is strictly greater than S: no unicast entry, no entry with a pair not
\* greater than S, and nothing else changes in the queue or in the history.
C22_ReplayIsBroadcastsAfter ==
    [][\A a \in Addrs, S \in FwdStamps :
         (reSendMsgs /\ PeerSend(a, Frame(S, ForwardReq))) =>
             /\ outputQueue' = outputQueue \o BroadcastsAfter(S, a)
             /\ msgHistory' = msgHistory]_vars

\* A forwarding request was answered by a replay that left out a unicast entry and a
\* broadcast whose pair is not greater than the pair of the request: the history
\* holds an ack and the two status messages of a task, the queue the later of them
C22_Witness ==
    /\ reSendMsgs
    /\ Len(msgHistory) = 3
    /\ msgHistory[1][2] # BroadcastAddr
    /\ msgHistory[2][2] = BroadcastAddr
    /\ msgHistory[3][2] = BroadcastAddr
    /\ \E a \in registeredHosts : outputQueue = << <<a, msgHistory[3][3]>> >>

\* An item of the outbound queue that a replay has put there: a status message of a
\* task, which the pool only ever broadcasts, addressed to one peer
Replayed(item) ==
    /\ item[1] # BroadcastAddr
    /\ ~is_status_message(item[2])
    /\ item[2].type \in {STATUS_START, STATUS_END, STATUS_ERR}

\* The number of frames the flush stamps for the first k items of the queue
StampIndex(k) ==
    Cardinality({j \in 1..k : ~(/\ is_status_message(outputQueue[j][2])
                                /\ outputQueue[j][2].status = CONNECTION_TOREMOVE_MSG)})

\* C23: a message replayed from the history is sent with the (sessionTs, seqNum) pair
\* of the history entry it was taken from, that is the pair it carried when it was
\* first broadcast, not with a fresh value of the sender's sequence counter.
C23_ReplayKeepsPair ==
    [][FlushOutputQueue =>
         \A k \in DOMAIN outputQueue :
            Replayed(outputQueue[k]) =>
               \E j \in DOMAIN msgHistory :
                  /\ msgHistory[j][2] = BroadcastAddr
                  /\ msgHistory[j][3] = outputQueue[k][2]
                  /\ stamped'[Len(stamped) + StampIndex(k)] = msgHistory[j][1]]_vars

-----------------------------------------------------------------------------
(* The dangling connections of the client *)

LostEvent == <<EngineAddr, StatusMsg(CONNECTION_LOST_MSG)>>
RestoredEvent == <<EngineAddr, StatusMsg(CONNECTION_RESTORED_MSG)>>
FinalizedEvent == <<EngineAddr, StatusMsg(CONNECTION_FINALIZED_MSG)>>

\* What the step appends to the inbound queue of the client
Enqueued ==
    IF Len(client'.inputQueue) > Len(client.inputQueue)
    THEN SubSeq(client'.inputQueue, Len(client.inputQueue) + 1, Len(client'.inputQueue))
    ELSE <<>>

EnqueuedSet == {Enqueued[k] : k \in DOMAIN Enqueued}

\* The client is not stopped by the step
KeepsRunning == injector'.phase \notin {"new", "done"}

\* The controller has asked for the removal of the engine (remove_host)
RemovalAsked ==
    \E k \in DOMAIN client.outputQueue :
        client.outputQueue[k] = <<EngineAddr, StatusMsg(CONNECTION_TOREMOVE_MSG)>>

\* The step loses the peer: a send fails or the liveness check finds the socket closed
PeerLost == client.registered /\ ~client'.registered /\ KeepsRunning /\ ~RemovalAsked

\* The step ends an outage while the client keeps running
OutageEnds == client.dangling # None /\ client'.dangling = None /\ KeepsRunning

-----------------------------------------------------------------------------
(* The controller and the events of its transport *)

\* What the step appends to the outbound queue of the client
Handed ==
    IF Len(client'.outputQueue) > Len(client.outputQueue)
    THEN SubSeq(client'.outputQueue, Len(client.outputQueue) + 1, Len(client'.outputQueue))
    ELSE <<>>

\* The step is an iteration of the inject loop: only there the controller pops in
\* that phase
InjectIteration == injector.phase = "inject" /\ Len(client'.inputQueue) < Len(client.inputQueue)

\* The CONNECTION_RESTORED events among what the step pops
RestoredPopped == SelectSeq(Popped, LAMBDA e : e = RestoredEvent)

\* The commands the step hands to send_msg for the engine
Unicasts == SelectSeq(Handed, LAMBDA item : item[1] = EngineAddr /\ ~is_status_message(item[2]))

\* The virtual time of the controller
VirtualNow == injector.start_timestamp + (now - injector.start_timestamp_abs)

AckPopped(type) ==
    /\ InjectIteration
    /\ Len(Popped) = 1
    /\ Popped[1][1] = EngineAddr
    /\ ~is_status_message(Popped[1][2])
    /\ Popped[1][2].type = type

\* The pending set of the engine after the step
PendingAfter ==
    IF EngineAddr \in DOMAIN injector'.pendingTasks
    THEN injector'.pendingTasks[EngineAddr]
    ELSE {}

\* The sequence numbers of the START commands the iteration broadcasts after it has
\* drained the inbound queue
NewlySent == Dispatched(injector') \ Dispatched(injector)

\* The entries the step appends to the execution log of the engine
Written == SubSeq(injector'.writers[EngineAddr], Len(Log) + 1, Len(injector'.writers[EngineAddr]))

C26_WitnessRefused == injector.refused # {}

\* The engine has resumed the session without a reset: the log ends with the entry of
\* the restored connection and task 10 is still pending
C26_WitnessResumed ==
    /\ Log # <<>>
    /\ Log[Len(Log)].type = STATUS_RESTORED
    /\ 10 \in Pending

\* The controller with the pending set S for the second engine
WithOther(S) == [injector EXCEPT !.pendingTasks = DictSet(@, OtherEngine, S)]

\* The controller after _process_msg_inject(addr, msg)
Processed(inj, addr, msg) ==
    process_msg_inject([inj |-> inj, out |-> <<>>, wake |-> FALSE, rest |-> <<>>], addr, msg).inj

\* The step is an iteration of the inject loop that pops one message, the
\* CONNECTION_FINALIZED of the engine
FinalizedPopped == InjectIteration /\ Popped = <<FinalizedEvent>>

-----------------------------------------------------------------------------
(* The controller opening a session with two engines that answer as they like *)

\* The Client with its connections to both engines open; wire and reply are history
\* fields: the frames written to the socket of each engine, and the answer of each
\* engine to START-SESSION with the second at which it was given
NewSessionClient ==
    [hosts |-> Engines, inputQueue |-> <<>>, outputQueue |-> <<>>, dummyReadable |-> FALSE,
     curr_seq_ts |-> 0, curr_seq_num |-> 0,
     wire |-> [e \in Engines |-> <<>>],
     reply |-> [e \in Engines |-> None]]

\* What the opening of a session leaves unchanged
SessFrame == UNCHANGED <<confVars, netVars, entityVars, engineVars, listenVars, poolVars>>

\* The wall clock advances by SessionClockStep seconds
SessTick ==
    /\ now < SessionWait + SessionClockStep
    /\ now' = now + SessionClockStep
    /\ UNCHANGED ctlVars
    /\ SessFrame

\* _inject, lines 124-131, and _init_session up to its loop (lines 231-241)
SessStart ==
    /\ injector.phase = "new"
    /\ injector' = [injector EXCEPT !.phase = "init",
                                    !.session_start_timestamp = now,
                                    !.session_sent = Cardinality(client.hosts),
                                    !.session_check_start = now]
    /\ client' = [client EXCEPT !.outputQueue = broadcast_msg(@, command_session(now, FALSE)),
                                !.dummyReadable = TRUE]
    /\ UNCHANGED now
    /\ SessFrame

\* _flush_output_queue, one iteration of its loop (lines 210-232), every send
\* succeeding: c holds the fields of the client
SessFlushItem(c, item) ==
    LET addr == item[1]
        msg == item[2]
        seq_num == <<c.curr_seq_ts, c.curr_seq_num>>
        targets == IF addr[1] = BROADCAST_ID THEN c.hosts ELSE {addr} \cap c.hosts
    IN IF is_status_message(msg) /\ msg.status = CONNECTION_TOREMOVE_MSG
       THEN [c EXCEPT !.hosts = @ \ {addr}]
       ELSE [c EXCEPT !.curr_seq_ts = NextSeqTs(c.curr_seq_ts, c.curr_seq_num),
                      !.curr_seq_num = NextSeqNum(c.curr_seq_num),
                      !.wire = [e \in Engines |->
                                  IF e \in targets
                                  THEN Append(c.wire[e], Frame(seq_num, msg))
                                  ELSE c.wire[e]]]

RECURSIVE SessFlushItems(_, _)
SessFlushItems(c, q) ==
    IF q = <<>> THEN c
    ELSE At(LAMBDA r : SessFlushItems(r, Tail(q)), SessFlushItem(c, Head(q)))

\* Client._listen, wakeup branch: _flush_output_queue (lines 201-232)
SessFlush ==
    /\ injector.phase \notin {"new", "done"}
    /\ client.dummyReadable
    /\ client' = [SessFlushItems(client, client.outputQueue) EXCEPT
                    !.outputQueue = <<>>, !.dummyReadable = FALSE]
    /\ UNCHANGED <<now, injector>>
    /\ SessFrame

\* An engine that has read START-SESSION answers it, with ack_yes after a reset of
\* its pool or with ack_no; an engine may also never answer
EngineReply(e, positive) ==
    /\ e \in client.hosts
    /\ client.reply[e] = None
    /\ \E k \in DOMAIN client.wire[e] : client.wire[e][k].comm.type = COMMAND_START_SESSION
    /\ client' = [client EXCEPT
                    !.reply[e] = <<IF positive THEN ACK_YES ELSE ACK_NO, now>>,
                    !.inputQueue = Append(@, <<e, ack(now, positive,
                                                      IF positive THEN <<-1>> ELSE None)>>)]
    /\ UNCHANGED <<now, injector>>
    /\ SessFrame

\* _init_session, lines 269-275: after a timeout remove_host is called for every
\* registered host that is not in session_accepted
RECURSIVE RemoveUnaccepted(_, _, _, _)
RemoveUnaccepted(q, hosts, accepted, order) ==
    IF order = <<>> THEN q
    ELSE RemoveUnaccepted(IF Head(order) \in hosts \ accepted
                          THEN remove_host(q, Head(order))
                          ELSE q,
                          hosts, accepted, Tail(order))

\* _init_session, lines 269-277, and _inject, lines 134-151, with two engines
SessInitDone ==
    /\ injector.phase = "init"
    /\ ~Waiting(injector.session_replied)
    /\ LET timed_out == now - injector.session_check_start >= SessionWait
           out == IF timed_out
                  THEN RemoveUnaccepted(client.outputQueue, client.hosts,
                                        injector.session_accepted, EngineOrder)
                  ELSE client.outputQueue
           start_timestamp == Workload[1].timestamp - WorkloadPadding
       IN IF injector.session_accepted = {}
          THEN /\ injector' = [injector EXCEPT !.phase = "done"]
               /\ client' = [client EXCEPT !.outputQueue = out, !.hosts = {}]
          ELSE /\ injector' = [injector EXCEPT
                                 !.phase = "inject",
                                 !.session_id = <<injector.session_start_timestamp>>,
                                 !.endReached = FALSE,
                                 !.read_tasks = 0,
                                 !.start_timestamp = start_timestamp,
                                 !.start_timestamp_abs = now,
                                 !.last_clock_correction = now]
               /\ client' = [client EXCEPT
                               !.outputQueue =
                                  broadcast_msg(out, command_set_time(start_timestamp)),
                               !.dummyReadable = TRUE]
    /\ UNCHANGED now
    /\ SessFrame

\* The controller is built and connected to both engines
InitSession ==
    /\ EngineInit
    /\ ~reSendMsgs
    /\ seq_num_lim = LongSeqNumLim
    /\ historyLen = LongHistoryLen
    /\ registeredHosts = {}
    /\ peerSock = [a \in Addrs |-> "new"]
    /\ sends = 0
    /\ ctlAddr = ConnectOrder[1]
    /\ client = NewSessionClient
    /\ \E m \in TaskLimits : injector = [NewInjector EXCEPT !.max_tasks = m]

NextSession ==
    \/ SessTick
    \/ SessStart
    \/ SessFlush
    \/ \E e \in Engines, positive \in BOOLEAN : EngineReply(e, positive)
    \/ CtlInitPoll
    \/ SessInitDone
    \/ CtlIterate

SpecSession == InitSession /\ [][NextSession]_vars

-----------------------------------------------------------------------------
(* The engines of a session *)

\* The engines that answered START-SESSION with ack_yes within sessionWait
AckedYesInTime ==
    {e \in Engines : /\ client.reply[e] # None
                     /\ client.reply[e][1] = ACK_YES
                     /\ client.reply[e][2] - injector.session_check_start < SessionWait}

\* The ack of e waits in the inbound queue of the client
AckQueued(e) == \E k \in DOMAIN client.inputQueue : client.inputQueue[k][1] = e

\* A START command was written to the socket of e
StartWritten(e) ==
    \E k \in DOMAIN client.wire[e] : client.wire[e][k].comm.type = COMMAND_START

\* The session is initialised
Initialised == injector.phase \notin {"new", "init"}

C28_WitnessSilent ==
    /\ injector.session_accepted = {OtherEngine}
    /\ client.reply[EngineAddr] = None
    /\ StartWritten(OtherEngine)
    /\ ~StartWritten(EngineAddr)
    /\ client.hosts = {OtherEngine}

-----------------------------------------------------------------------------
(* The dispatch of the workload *)

\* The START commands the step hands to broadcast_msg
StartsHanded ==
    SelectSeq(Handed, LAMBDA item : /\ item[1] = BroadcastAddr
                                    /\ ~is_status_message(item[2])
                                    /\ item[2].type = COMMAND_START)

\* The START commands of the tasks first + 1 .. last of the workload, as broadcasts
StartsOf(first, last) ==
    [k \in 1..(last - first) |-> <<BroadcastAddr, command_start(Workload[first + k])>>]

\* The number of tasks read when the whole workload, or as much of it as max_tasks
\* allows, has been sent
ReadAtEnd ==
    IF injector.max_tasks # None /\ injector.max_tasks[1] < Len(Workload)
    THEN injector.max_tasks[1]
    ELSE Len(Workload)

\* The controller after the dispatch loop of _inject has run in the current state
\* with the pre-send interval pre
Dispatch(pre) ==
    DispatchWith([inj |-> injector, out |-> <<>>, wake |-> FALSE, rest |-> <<>>], pre)

\* C29: the START commands a step of the controller broadcasts are those of the
\* tasks it reads in that step, in workload order, so that no task is broadcast
\* twice; each of them has a timestamp less than the virtual time of the controller
\* plus preSendInterval; its seqNum is, after the step, in the pending set of every
\* accepted engine (of every engine that has a pending set). With a negative
\* preSendInterval the dispatch loop sends at once all that is left of the workload,
\* up to max_tasks, in workload order.
C29_DispatchInOrderWhenDue ==
    /\ [][/\ injector'.read_tasks >= injector.read_tasks \/ injector.phase = "init"
          /\ injector.phase = "inject" =>
               /\ StartsHanded = StartsOf(injector.read_tasks, injector'.read_tasks)
               /\ \A k \in (injector.read_tasks + 1)..injector'.read_tasks :
                    /\ Workload[k].timestamp < VirtualNow + PreSendInterval
                    /\ \A a \in injector.session_accepted :
                         /\ a \in DOMAIN injector'.pendingTasks
                         /\ Workload[k].seqNum \in injector'.pendingTasks[a]
          /\ injector.phase # "inject" => StartsHanded = <<>>]_vars
    /\ [](injector.phase = "inject" /\ ~injector.endReached =>
            /\ Dispatch(-1).inj.read_tasks = ReadAtEnd
            /\ Dispatch(-1).inj.endReached
            /\ Dispatch(-1).out = StartsOf(injector.read_tasks, ReadAtEnd)
            /\ \A a \in DOMAIN injector.pendingTasks :
                 Dispatch(-1).inj.pendingTasks[a] =
                    injector.pendingTasks[a]
                       \cup {Workload[k].seqNum : k \in (injector.read_tasks + 1)..ReadAtEnd})

\* Both engines have accepted the session; task 10 was broadcast at once and task
\* 11 when it was due, and both are pending for both engines
C29_Witness ==
    /\ injector.phase = "inject"
    /\ injector.session_accepted = Engines
    /\ injector.read_tasks = 2
    /\ injector.start_timestamp_abs < now
    /\ \A e \in Engines : injector.pendingTasks[e] = {10, 11}
    /\ \A e \in Engines : StartWritten(e)

-----------------------------------------------------------------------------
(* The outbound queue of a MessageEntity, written by several threads while the
   event loop flushes it *)

\* The threads that call send_msg and broadcast_msg
ProducerThreads == {"t1", "t2"}

\* The entity with both engines registered. pc and n_msg are the position and the
\* local of the event loop, producer the position of each producer thread and item
\* the number of the item it appended last. History fields: appended holds the items
\* in the order in which they were appended, sent the items whose wakeup byte was
\* written and received those whose wakeup byte the loop has read
NewFlushEntity ==
    [hosts |-> Engines, outputQueue |-> <<>>, dummyReadable |-> FALSE,
     curr_seq_ts |-> 0, curr_seq_num |-> 0,
     wire |-> [e \in Engines |-> <<>>],
     pc |-> "select", n_msg |-> 0,
     producer |-> [t \in ProducerThreads |-> "idle"],
     item |-> [t \in ProducerThreads |-> 0],
     appended |-> <<>>, sent |-> {}, received |-> {}]

FlushFrame ==
    UNCHANGED <<now, injector, confVars, netVars, entityVars, engineVars, listenVars, poolVars>>

\* send_msg (lines 145-147) and broadcast_msg (lines 161-163): the append under
\* _outputLock. The messages are numbered to tell them apart
ProducerAppend(t) ==
    /\ client.producer[t] = "idle"
    /\ Len(client.appended) < MaxAppended
    /\ \E addr \in Engines \cup {BroadcastAddr} :
         LET comm == command_set_time(Len(client.appended) + 1)
             q == IF addr = BroadcastAddr
                  THEN broadcast_msg(client.outputQueue, comm)
                  ELSE send_msg(client.outputQueue, addr, comm)
         IN client' = [client EXCEPT !.outputQueue = q,
                                     !.appended = Append(@, <<addr, comm>>),
                                     !.item[t] = Len(client.appended) + 1,
                                     !.producer[t] = "wake"]
    /\ FlushFrame

\* For comparison: a producer that returns without writing the wakeup byte
ProducerNoWake(t) ==
    /\ client.producer[t] = "wake"
    /\ client' = [client EXCEPT !.producer[t] = "idle"]
    /\ FlushFrame

\* send_msg (line 149) and broadcast_msg (line 165): the byte written to the wakeup
\* socket after the lock was released
ProducerWake(t) ==
    /\ client.producer[t] = "wake"
    /\ client' = [client EXCEPT !.dummyReadable = TRUE, !.producer[t] = "idle",
                                !.sent = @ \cup {client.item[t]}]
    /\ FlushFrame

\* _flush_output_queue, line 206: select has returned the wakeup socket, which is
\* drained
FlushRecv ==
    /\ client.pc = "select"
    /\ client.dummyReadable
    /\ client' = [client EXCEPT !.dummyReadable = FALSE, !.pc = "len",
                                !.received = client.sent]
    /\ FlushFrame

\* _flush_output_queue, line 208: the number of items to work is read once
FlushLen ==
    /\ client.pc = "len"
    /\ client' = [client EXCEPT !.n_msg = Len(client.outputQueue),
                                !.pc = IF Len(client.outputQueue) = 0 THEN "select" ELSE "loop"]
    /\ FlushFrame

\* _flush_output_queue, one iteration of the loop (lines 209-232): popleft, the stamp,
\* the writes to the sockets
FlushPop ==
    /\ client.pc = "loop"
    /\ client' = [SessFlushItem(client, Head(client.outputQueue)) EXCEPT
                    !.outputQueue = Tail(client.outputQueue),
                    !.n_msg = client.n_msg - 1,
                    !.pc = IF client.n_msg = 1 THEN "select" ELSE "loop"]
    /\ FlushFrame

InitFlush ==
    /\ EngineInit
    /\ ~reSendMsgs
    /\ seq_num_lim = LongSeqNumLim
    /\ historyLen = LongHistoryLen
    /\ registeredHosts = {}
    /\ peerSock = [a \in Addrs |-> "new"]
    /\ sends = 0
    /\ ctlAddr = None
    /\ client = NewFlushEntity
    /\ injector = NewInjector

NextFlush ==
    \/ \E t \in ProducerThreads : ProducerAppend(t)
    \/ \E t \in ProducerThreads : ProducerWake(t)
    \/ FlushRecv
    \/ FlushLen
    \/ FlushPop

SpecFlush == InitFlush /\ [][NextFlush]_vars

\* The number of appended items that the event loop has popped
PoppedItems == Len(client.appended) - Len(client.outputQueue)

\* The frames the socket of engine e has to carry when the first n appended items
\* have been flushed in the order of their appending: those of the broadcasts and of
\* the unicasts to e, the i-th item carrying the stamp (0, i - 1)
RECURSIVE WireInOrder(_, _)
WireInOrder(e, n) ==
    IF n = 0 THEN <<>>
    ELSE LET item == client.appended[n]
         IN IF item[1] \in {BroadcastAddr, e}
            THEN Append(WireInOrder(e, n - 1), Frame(<<0, n - 1>>, item[2]))
            ELSE WireInOrder(e, n - 1)

\* C30: whatever the interleaving of the producer threads with the event loop, the
\* outbound queue holds the appended items that were not yet popped in the order of
\* their appending, the loop never pops from an empty queue, and the socket of each
\* peer carries the broadcasts and the unicasts to that peer in the order in which
\* they were appended, stamped in that order.
C30_WrittenInAppendOrder ==
    /\ PoppedItems >= 0
    /\ client.outputQueue = SubSeq(client.appended, PoppedItems + 1, Len(client.appended))
    /\ client.pc = "loop" => 0 < client.n_msg /\ client.n_msg <= Len(client.outputQueue)
    /\ client.curr_seq_num = PoppedItems
    /\ \A e \in Engines : client.wire[e] = WireInOrder(e, PoppedItems)

\* A broadcast and then a unicast to the engine were appended and both are on its
\* socket, while the loop is in a flush during which a further item was appended
C30_Witness ==
    /\ Len(client.appended) >= 3
    /\ client.appended[1][1] = BroadcastAddr
    /\ client.appended[2][1] = EngineAddr
    /\ Len(client.wire[EngineAddr]) >= 2
    /\ client.pc = "loop"
    /\ client.n_msg < Len(client.outputQueue)

\* The appended items that the running flush will pop before the loop returns to
\* select: those counted by n_msg, or the whole queue when n_msg is about to be read
Covered ==
    IF client.pc = "loop" THEN PoppedItems + client.n_msg
    ELSE IF client.pc = "len" THEN Len(client.appended)
    ELSE PoppedItems

\* C31: an appended message is flushed no later than the loop iteration woken by the
\* wakeup byte of the call that appended it: once that byte has been read by the loop,
\* the message is popped or is among the items the running flush still pops, and when
\* the loop is back in select it has been popped. No message is stranded: for a
\* message that no running flush covers the wakeup byte is still to be written by the
\* thread that appended it, or is waiting on the wakeup socket.
C31_FlushedByOwnWakeup ==
    /\ \A i \in client.received : i <= Covered
    /\ \A i \in client.received : client.pc = "select" => i <= PoppedItems
    /\ \A i \in 1..Len(client.appended) :
         i > Covered =>
            \/ \E t \in ProducerThreads : client.producer[t] = "wake" /\ client.item[t] = i
            \/ i \in client.sent \ client.received /\ client.dummyReadable
    /\ client.dummyReadable <=> client.sent # client.received

\* An item was appended while the loop was between reading the wakeup byte of an
\* earlier item and the end of its flush: the loop is back in select, the later item
\* is still queued and its own wakeup byte is waiting
C31_Witness ==
    /\ client.pc = "select"
    /\ client.received = {1}
    /\ client.sent = {1, 2}
    /\ PoppedItems = 1
    /\ Len(client.outputQueue) = 1
    /\ client.dummyReadable

-----------------------------------------------------------------------------
(* Malformed frames *)

\* C32: a received frame whose payload fails JSON decoding is dropped with no other
\* effect: nothing is added to the inbound queue, no replay is queued and nothing is
\* sent, and the connection it came on stays registered, with replay enabled and
\* disabled.
C32_MalformedFrameDropped ==
    [][\A a \in Addrs, st \in FwdStamps :
          PeerSend(a, Frame(st, BadJson)) =>
             /\ inputQueue' = inputQueue
             /\ outputQueue' = outputQueue
             /\ registeredHosts' = registeredHosts
             /\ msgHistory' = msgHistory]_vars

\* The same without replay, where it holds
C32_DroppedWithoutReplay ==
    [][\A a \in Addrs, st \in FwdStamps :
          PeerSend(a, Frame(st, BadJson)) /\ ~reSendMsgs =>
             /\ inputQueue' = inputQueue
             /\ outputQueue' = outputQueue
             /\ registeredHosts' = registeredHosts
             /\ msgHistory' = msgHistory]_vars

-----------------------------------------------------------------------------
(* The subprocess of a worker slot *)

\* Slot i gets a new subprocess in the step
SpawnedIn(i) ==
    /\ i \in DOMAIN threads /\ i \in DOMAIN threads'
    /\ threads'[i].process = "running"
    /\ threads[i].process # "running"

\* C33: once a worker slot has been flagged for termination no subprocess is spawned
\* in it: no step of the pool, of its workers or of stop gives a flagged slot a new
\* subprocess, and a start_process on a flagged slot returns no Popen object and
\* leaves the slot's subprocess as it is.
C33_NoSpawnOnceFlagged ==
    [][\A i \in 1..PoolWorkers :
          /\ (i \in DOMAIN threads /\ threads[i].hasToFinish) => ~SpawnedIn(i)
          /\ (i \in DOMAIN threads /\ i \in DOMAIN threads' /\ threads[i].hasToFinish) =>
                threads'[i].hasToFinish
          /\ (i \in DOMAIN threads /\ threads[i].hasToFinish) =>
                \A spawned \in BOOLEAN :
                   /\ ~start_process(threads[i], spawned).p
                   /\ start_process(threads[i], spawned).process = threads[i].process]_vars

\* A worker that was flagged between taking its task and start_process has called
\* start_process and got nothing
C33_Witness ==
    \E i \in DOMAIN threads :
       /\ threads[i].hasToFinish
       /\ threads[i].st = "started"
       /\ threads[i].task # None
       /\ ~threads[i].p
       /\ threads[i].process = "none"

\* The live subprocesses of slot i: the one _process refers to, if it runs, and those
\* that were running when _process was overwritten
Live(i) == threads[i].lost + (IF threads[i].process = "running" THEN 1 ELSE 0)

\* C34: at every moment each worker slot has at most one live subprocess, also across
\* the respawns of a retried task and the kill at the end of the duration: a worker
\* that is about to call start_process, for a new task or again for a retried one,
\* has no subprocess running, and a worker back in its loop has none either.
C34_AtMostOneLiveSubprocess ==
    \A i \in DOMAIN threads :
       /\ Live(i) <= 1
       /\ threads[i].st \in {"spawn", "respawn", "idle", "tosleep", "sleeping"} => Live(i) = 0

\* A retried task: the first subprocess has exited with an error and the task runs
\* again in a second subprocess of the same slot
C34_Witness ==
    \E i \in DOMAIN threads :
       /\ threads[i].st = "running"
       /\ threads[i].process = "running"
       /\ threads[i].rcode # 0
       /\ Live(i) = 1

-----------------------------------------------------------------------------
(* The reset of the pool for a new session: stop(kill_abruptly=True), then start() *)

\* ThreadPool.start, lines 136-149, called by _update_session right after stop has
\* returned (fault_injector_engine.py, lines 129-130): new worker threads; the queue
\* and its semaphore are what stop has left
PoolStart ==
    /\ stopCall.pc = "done"
    /\ ~poolInitialized
    /\ threads' = [i \in 1..PoolWorkers |-> NewThread]
    /\ poolInitialized' = TRUE
    /\ stopCall' = [stopCall EXCEPT !.pc = "restarted"]
    /\ UNCHANGED <<queueSem, retry_tasks>>
    /\ StopFrame

\* The pool in service, reset at any moment; no task is submitted after the reset
NextReset ==
    \/ NextStop
    \/ PoolStart

SpecReset == InitPool /\ [][NextReset]_vars

\* C35: after the pool was reset for a new session (stop with kill, then start), no
\* task submitted before the reset is spawned: here every task was submitted before
\* the reset, so after it no slot gets a subprocess.
C35_NoOldTaskAfterReset ==
    [][stopCall.pc = "restarted" => \A i \in 1..PoolWorkers : ~SpawnedIn(i)]_vars

\* What holds of the claim: the tasks that workers held at the reset are gone with
\* their threads, only tasks of the queue are left
C35_OnlyQueuedTasksSurvive ==
    [][PoolStart => /\ \A i \in DOMAIN threads' : threads'[i].task = None
                    /\ queueSem' >= Len(poolQueue')]_vars

-----------------------------------------------------------------------------
(* The shutdown notification *)

\* stop has notified the sleep condition
Notified == stopCall.pc \in {"noretry", "kill", "join", "clear", "done"}

\* C36: when the pool is stopped, every worker that waits, or is about to wait, for
\* the start time of its task is woken by the notification of stop: once stop has
\* notified the sleep condition no worker is waiting on it for its time-to-task.
C36_StopWakesEverySleeper ==
    Notified => \A i \in DOMAIN threads : threads[i].st # "sleeping"

-----------------------------------------------------------------------------
(* The recorded master and the registered peers *)

\* The START-SESSION processed in the step is accepted: its sender becomes the master
\* and is answered with ack_yes, with or without error = -1
SessionAccepted ==
    /\ master' = HeadAddr
    /\ session_timestamp' = HeadMsg.timestamp
    /\ \E err \in {None, <<-1>>} : Replied(ack(now, TRUE, err))

\* It is turned down: ack_no, and the session stays as it is
SessionRejected ==
    /\ UNCHANGED <<master, session_timestamp>>
    /\ Replied(ack(now, FALSE, None))

\* C37: a START-SESSION from an address other than the recorded master is accepted
\* if and only if there is no master or the recorded master is not among the peers
\* registered with the server, and is turned down otherwise; and a step that takes
\* the master out of the registered peers, or in which the master closes its
\* connection, leaves the recorded master and the stored sessionTs as they are.
C37_AcceptedIffMasterAbsent ==
    [][ /\ (SessionStep /\ HeadAddr # master) =>
            /\ SessionAccepted <=> (master = None \/ master \notin registeredHosts)
            /\ SessionAccepted \/ SessionRejected
        /\ (master # None /\ master \in registeredHosts /\ master \notin registeredHosts') =>
            UNCHANGED <<master, session_timestamp>>
        /\ (master # None /\ peerSock[master] # peerSock'[master]) =>
            UNCHANGED <<master, session_timestamp>>
      ]_vars

\* The master of a session with a submitted task has lost its connection and the
\* START-SESSION of a second peer, carrying the stored sessionTs, was accepted
\* without a reset of the pool
C37_Witness ==
    /\ handled # None
    /\ handled[2].type = COMMAND_START_SESSION
    /\ handled[1] = master
    /\ Len(submitted) = 1
    /\ submitted[1][1] # master
    /\ submitted[1][1] \notin registeredHosts
    /\ poolStarts = 1
    /\ outputQueue # <<>>
    /\ outputQueue[Len(outputQueue)] = <<master, ack(now, TRUE, None)>>

-----------------------------------------------------------------------------
(* The inbound queue of a MessageEntity, filled by the event loop and emptied by
   consumer threads *)

\* The threads that call pop_msg_queue
ConsumerThreads == {"c1", "c2"}

\* The entity: the inbound queue and its semaphore; pc is the position of the event
\* loop inside _add_to_input_queue, consumer that of each consumer inside
\* pop_msg_queue. History fields: added counts the messages added, returned holds
\* what the pops have returned, in the order of their critical sections, and
\* returnedTo the consumers they were returned to
NewInputEntity ==
    [inputQueue |-> <<>>, messageSem |-> 0, pc |-> "idle",
     consumer |-> [t \in ConsumerThreads |-> "idle"],
     added |-> 0, returned |-> <<>>, returnedTo |-> <<>>]

InputFrame ==
    UNCHANGED <<now, injector, confVars, netVars, entityVars, engineVars, listenVars, poolVars>>

\* _add_to_input_queue, line 256: the message is appended. The messages are numbered
\* to tell them apart
InputAppend ==
    /\ client.pc = "idle"
    /\ client.added < MaxAdded
    /\ client' = [client EXCEPT
                    !.inputQueue = Append(@, <<EngineAddr, command_set_time(client.added + 1)>>),
                    !.added = @ + 1,
                    !.pc = "release"]
    /\ InputFrame

\* _add_to_input_queue, line 257: the semaphore is released
InputRelease ==
    /\ client.pc = "release"
    /\ client' = [client EXCEPT !.messageSem = @ + 1, !.pc = "idle"]
    /\ InputFrame

\* For comparison: an acquire that does not wait for a permit
PopNoWait(t) ==
    /\ client.consumer[t] = "idle"
    /\ client' = [client EXCEPT !.messageSem = IF @ > 0 THEN @ - 1 ELSE 0,
                                !.consumer[t] = "acquired"]
    /\ InputFrame

\* pop_msg_queue(blocking=True), line 183: the consumer waits for a permit
PopAcquire(t) ==
    /\ client.consumer[t] = "idle"
    /\ client.messageSem > 0
    /\ client' = [client EXCEPT !.messageSem = @ - 1, !.consumer[t] = "acquired"]
    /\ InputFrame

\* pop_msg_queue, lines 184-187: under _inputLock the first message is popped, or
\* (None, None) is returned if the queue is empty
PopTake(t) ==
    /\ client.consumer[t] = "acquired"
    /\ client' = IF Len(client.inputQueue) > 0
                 THEN [client EXCEPT !.inputQueue = Tail(@),
                                     !.returned = Append(@, Head(client.inputQueue)),
                                     !.returnedTo = Append(@, t),
                                     !.consumer[t] = "idle"]
                 ELSE [client EXCEPT !.returned = Append(@, <<None, None>>),
                                     !.returnedTo = Append(@, t),
                                     !.consumer[t] = "idle"]
    /\ InputFrame

InitInput ==
    /\ EngineInit
    /\ ~reSendMsgs
    /\ seq_num_lim = LongSeqNumLim
    /\ historyLen = LongHistoryLen
    /\ registeredHosts = {}
    /\ peerSock = [a \in Addrs |-> "new"]
    /\ sends = 0
    /\ ctlAddr = None
    /\ client = NewInputEntity
    /\ injector = NewInjector

NextInput ==
    \/ InputAppend
    \/ InputRelease
    \/ \E t \in ConsumerThreads : PopAcquire(t)
    \/ \E t \in ConsumerThreads : PopTake(t)

SpecInput == InitInput /\ [][NextInput]_vars

\* The consumers that hold a permit and have not popped yet
Permitted == {t \in ConsumerThreads : client.consumer[t] = "acquired"}

\* C38: a blocking pop_msg_queue never returns (None, None), and every message added
\* to the inbound queue is returned by exactly one pop, in the order in which it was
\* added: what the pops have returned, followed by what is queued, is the sequence
\* of the added messages; the permits given out and those of the semaphore never
\* exceed the queued messages.
C38_EveryMessagePoppedOnce ==
    /\ \A k \in DOMAIN client.returned : client.returned[k] # <<None, None>>
    /\ client.returned \o client.inputQueue =
          [k \in 1..client.added |-> <<EngineAddr, command_set_time(k)>>]
    /\ client.messageSem + Cardinality(Permitted) + (IF client.pc = "release" THEN 1 ELSE 0)
          = Len(client.inputQueue)

\* Both consumers hold a permit at once while two messages are queued, one message
\* having been returned before
C38_Witness ==
    /\ Permitted = ConsumerThreads
    /\ Len(client.inputQueue) = 2
    /\ Len(client.returned) = 1
    /\ Len(client.returnedTo) = 1

-----------------------------------------------------------------------------
(* Removals asked through the public remove_host *)

\* The removal sentinel of engine e, as an item of the outbound queue
Sentinel(e) == <<e, StatusMsg(CONNECTION_TOREMOVE_MSG)>>

\* remove_host(addr), lines 196-199, called by a producer thread: the sentinel is
\* appended under _outputLock and the call returns; nothing is written to the wakeup
\* socket
ProducerRemove(t) ==
    /\ client.producer[t] = "idle"
    /\ Len(client.appended) < MaxAppended
    /\ \E e \in Engines :
         client' = [client EXCEPT !.outputQueue = remove_host(@, e),
                                  !.appended = Append(@, Sentinel(e))]
    /\ FlushFrame

NextRemove ==
    \/ NextFlush
    \/ \E t \in ProducerThreads : ProducerRemove(t)

\* The event loop runs whenever it can, and a producer that has appended goes on to
\* write its wakeup byte
FairRemove ==
    /\ InitFlush
    /\ [][NextRemove]_vars
    /\ WF_vars(FlushRecv)
    /\ WF_vars(FlushLen)
    /\ WF_vars(FlushPop)
    /\ \A t \in ProducerThreads : WF_vars(ProducerWake(t))

\* The removal of e is queued
RemovalQueued(e) == \E k \in DOMAIN client.outputQueue : client.outputQueue[k] = Sentinel(e)

\* C39: a removal asked through remove_host is eventually applied by the event loop,
\* the peer being unregistered, even if no send_msg or broadcast_msg follows.
C39_RemovalEventuallyApplied ==
    \A e \in Engines : RemovalQueued(e) ~> (e \notin client.hosts)

\* What holds of the claim: the loop applies a removal without using a sequence
\* number and without writing to any socket, and a removal followed by a send_msg or
\* broadcast_msg whose wakeup byte is written is applied by the flush that byte wakes
C39_RemovalTakesNoStamp ==
    [][\A e \in Engines :
          (FlushPop /\ Head(client.outputQueue) = Sentinel(e)) =>
             /\ client'.hosts = client.hosts \ {e}
             /\ client'.curr_seq_num = client.curr_seq_num
             /\ client'.curr_seq_ts = client.curr_seq_ts
             /\ client'.wire = client.wire
             /\ FlushItem([ts |-> curr_seq_ts, num |-> curr_seq_num, hist |-> msgHistory,
                           hosts |-> {e}, delivered |-> <<>>, stamps |-> stamped,
                           wrapped |-> FALSE], Sentinel(e), {})
                  = [ts |-> curr_seq_ts, num |-> curr_seq_num, hist |-> msgHistory,
                     hosts |-> {}, delivered |-> <<>>, stamps |-> stamped,
                     wrapped |-> FALSE]]_vars

-----------------------------------------------------------------------------
(* The virtual clock of the pool *)

\* The step is the processing of the master's SET-TIME carrying t
SetTimeStep(t) ==
    ListenStep /\ SetTimeGuard(HeadAddr, HeadMsg) /\ HeadMsg.timestamp = t

\* C40: immediately after the engine has processed the master's SET-TIME(t) the
\* virtual time of the pool is t: a task with timestamp t has time-to-task 0,
\* whatever clock corrections were applied before.
C40_SetTimeAnchorsClock ==
    [][\A t \in SetTimes : SetTimeStep(t) => time_to_task(Task(10, t, 0))' = 0]_vars

\* What holds of the claim: the anchor is set to (t, now), and the time-to-task of a
\* task with timestamp t is then the correction factor, sign reversed, which is 0 as
\* long as no CORRECT-TIME has changed it
C40_SetTimeKeepsCorrection ==
    [][\A t \in SetTimes :
          SetTimeStep(t) =>
             /\ session_start' = t
             /\ session_start_abs' = now
             /\ correction_factor' = correction_factor
             /\ time_to_task(Task(10, t, 0))' = -correction_factor]_vars
====
